---- MODULE Spec2Model ----
(***************************************************************************)
(* A model of VkHashDAG: the paged store under the node pool, the          *)
(* hash-consed node pool, the edit engine with the editors of main.cpp,    *)
(* the garbage collector and the edit submission loop of main().           *)
(*                                                                         *)
(* The module holds several specifications over one set of variables; a    *)
(* specification initialises the components it does not exercise to their  *)
(* state after construction and leaves them unchanged.                     *)
(*   SpecStore  WritePage / ZeroPage / FreePage / Flush against a backend  *)
(*   SpecFlush  WritePage / FreePage / Flush with one-word writes           *)
(*   SpecMain   main(): the initial edits, then the frame loop with        *)
(*              pop_edit_result, push_edit, the GC button and the worker   *)
(*              of edit_pool                                               *)
(*   SpecPool   upsert_node<ThreadSafe> by two tasks of one edit, one step *)
(*              per access to the shared bucket state                      *)
(*   SpecLock   upsert_node by two tasks on buckets that share a mutex,     *)
(*              under the scheduling of the thread pool                    *)
(*   SpecEdit   edits with the editors of main.cpp, the GC button and      *)
(*              flush on a 4x4x4 world, one operation at a time            *)
(*   SpecOrder  two disjoint boxes of one color filled in both orders,     *)
(*              the two worlds built in one pool                           *)
(*   SpecFork   an edit whose eight recursive calls at the root are tasks,  *)
(*              run in any order and joined                                *)
(*   SpecVBR    a VBR chunk written color by color and read back            *)
(*   SpecLeaf   DAGColorPool::SetLeaf on the leaf vector, one call at a    *)
(*              time, with and without keep_history                        *)
(*   SpecAppend SafePagedVector::Append by two tasks, one step per access  *)
(*              to m_used_pages                                            *)
(***************************************************************************)
EXTENDS Integers, Sequences, FiniteSets, TLC

VARIABLES
    m_pages,              \* DAGNodePool::m_pages: page_id -> word buffer, NoPage when null
    m_page_write_ranges,  \* page_id -> dirty range <<begin, end>> (end exclusive), NoRange when absent
    m_page_frees,         \* set of page ids freed since the last Flush
    backend,              \* backing storage the flushed PageOps were applied to
    last_ops,             \* the PageOps emitted by the most recent Flush
    written,              \* per resident page, the offsets written since it was materialised
    main_pc,              \* where the main thread is in main()
    init_left,            \* initial set_root(edit(..)) calls of main() still to run
    edit_future,          \* std::future<EditResult> edit_future: NoTask when !valid(), else its task
    edit_queue,           \* tasks enqueued in edit_pool and not yet taken by its worker
    worker_pc,            \* where the single worker of edit_pool is in the task lambda
    worker_task,          \* the task the worker runs, its arguments and its result
    promise,              \* task -> the EditResult made ready for its future, NoResult before
    node_root,            \* dag_node_pool->GetRoot()
    color_root,           \* dag_color_pool->GetRoot()
    results,              \* EditResults produced so far: id -> how it was computed
    pushed,               \* tasks enqueued so far
    last_push,            \* what the latest push_edit call did: "none", "enqueued", "returned"
    m_bucket_words,       \* bucket -> used words (BucketState::used_words)
    m_edit_mutexes,       \* mutex -> the task that holds it, NoOwner when free
    task,                 \* task -> its position in upsert_node and the locals it holds
    appended,             \* the appends decided so far: bucket, offset, words, task
    returned,             \* what upserts returned so far: level, words, pointer
    upserts,              \* upsert_node calls started so far
    m_root,               \* DAGNodePool root (GetRoot / SetRoot)
    m_color_root,         \* DAGColorPool root
    history,              \* the edits and GCs applied so far
    last_trace,           \* the decisions of the latest edit, child by child
    produced,             \* <<level, pointer>> the edits produced since the last GC
    fresh_fill,           \* what the words of a page allocated by an edit or a GC hold before they are written
    keep_history,         \* <<Config::keep_history>> of the DAGColorPool, <<>> before it is created
    m_leaves,             \* DAGColorPool::m_leaves: index -> word
    m_used_pages,         \* SafePagedVector::m_used_pages of m_leaves
    leaf_log,             \* the SetLeaf calls so far: arguments, result, what they did
    append_task,          \* task -> its position in SafePagedVector::Append and its locals
    append_log,           \* what the Append calls returned so far
    fork,                 \* the edit whose octant tasks are spawned: its tasks' results so far
    vbr                   \* the VBR chunk writer: the chunk so far, the colors pushed, the last read

storeVars == <<m_pages, m_page_write_ranges, m_page_frees, backend, last_ops, written>>

mainVars == <<main_pc, init_left, edit_future, edit_queue, worker_pc, worker_task,
              promise, node_root, color_root, results, pushed, last_push>>

poolVars == <<m_bucket_words, m_edit_mutexes, task, appended, returned, upserts>>

editVars == <<m_root, m_color_root, history, last_trace, produced, fresh_fill>>

leafVars == <<keep_history, m_leaves, m_used_pages, leaf_log, append_task, append_log>>

forkVars == <<fork>>

vbrVars == <<vbr>>

vars == <<storeVars, mainVars, poolVars, editVars, leafVars, forkVars, vbrVars>>

\* What the actions of one component leave alone.
notStore == <<vbrVars, mainVars, poolVars, editVars, leafVars, forkVars>>
notMain == <<vbrVars, storeVars, poolVars, editVars, leafVars, forkVars>>
notPool == <<vbrVars, mainVars, editVars, leafVars, forkVars, backend, last_ops, m_page_frees>>
notEdit == <<vbrVars, mainVars, leafVars, forkVars, m_edit_mutexes, task, appended, returned, upserts>>
notLeaf == <<vbrVars, storeVars, mainVars, poolVars, editVars, forkVars>>
notVBR == <<storeVars, mainVars, poolVars, editVars, leafVars, forkVars>>
notFork == <<vbrVars, mainVars, leafVars, m_edit_mutexes, task, appended, returned, upserts,
             m_page_frees, backend, last_ops, history, last_trace, produced, fresh_fill>>

(***************************************************************************)
(* Configuration (hashdag::Config), scaled down.                           *)
(***************************************************************************)
WordBitsPerPage == 3
PageBitsPerBucket == 1
\* bucket_bits_each_level: one bucket for level 0, two for level 1.
BucketBitsEachLevel == <<0, 1>>

Pow2(n) == 2 ^ n
WordsPerPage == Pow2(WordBitsPerPage)
PagesPerBucket == Pow2(PageBitsPerBucket)
WordsPerBucket == WordsPerPage * PagesPerBucket
Levels == 0 .. (Len(BucketBitsEachLevel) - 1)
BucketsAtLevel(level) == Pow2(BucketBitsEachLevel[level + 1])
RECURSIVE LevelBaseBucket(_)
LevelBaseBucket(level) ==
    IF level = 0 THEN 0 ELSE LevelBaseBucket(level - 1) + BucketsAtLevel(level - 1)
TotalBuckets == LevelBaseBucket(Len(BucketBitsEachLevel))
Buckets == 0 .. (TotalBuckets - 1)
TotalPages == TotalBuckets * PagesPerBucket
PageIds == 0 .. (TotalPages - 1)

NoPage == <<>>
NoRange == <<>>

\* What a buffer from make_unique_for_overwrite can hold before it is written.
UninitWords == {0, 165}

\* The element of a one-element set: { e : x \in {v} } binds x to the value of v once.
Only(S) == CHOOSE x \in S : TRUE

Min(a, b) == IF a < b THEN a ELSE b
Max(a, b) == IF a > b THEN a ELSE b

(***************************************************************************)
(* PagedStore operations                                                   *)
(***************************************************************************)
\* The buffer made anew on every write, whatever the page held.
PageBuffer_Fresh(pages, fill, page_id) ==
    [i \in 1 .. WordsPerPage |-> fill]

\* The page's buffer, allocated (with indeterminate content `fill`) on first write.
PageBuffer(pages, fill, page_id) ==
    IF pages[page_id] = NoPage
    THEN [i \in 1 .. WordsPerPage |-> fill]
    ELSE pages[page_id]

\* WritePage with the copy one word short: the last word of data stays unwritten.
WritePage_DropLast(pages, fill, page_id, offset, data) ==
    LET buf == PageBuffer(pages, fill, page_id)
    IN  [pages EXCEPT ![page_id] =
            [i \in 1 .. WordsPerPage |->
                IF i - 1 >= offset /\ i - 1 < offset + Len(data) - 1
                THEN data[i - offset] ELSE buf[i]]]

\* DAGNodePool::WritePage: allocate on first write, then std::copy at offset.
WritePage(pages, fill, page_id, offset, data) ==
    LET buf == PageBuffer(pages, fill, page_id)
    IN  [pages EXCEPT ![page_id] =
            [i \in 1 .. WordsPerPage |->
                IF i - 1 >= offset /\ i - 1 < offset + Len(data)
                THEN data[i - offset] ELSE buf[i]]]

\* write_page "extends this page's dirty-range [lo, hi)".
ExtendRange(ranges, page_id, lo, hi) ==
    [ranges EXCEPT ![page_id] =
        IF ranges[page_id] = NoRange THEN <<lo, hi>>
        ELSE <<Min(ranges[page_id][1], lo), Max(ranges[page_id][2], hi)>>]

Zeros(n) == [i \in 1 .. n |-> 0]

\* Backend interface: Bind copies words into backing storage at the offset.
ApplyBind(b, page_id, offset, words) ==
    [b EXCEPT ![page_id] =
        [bound |-> TRUE,
         words |-> [i \in 1 .. WordsPerPage |->
                      IF i - 1 >= offset /\ i - 1 < offset + Len(words)
                      THEN words[i - offset] ELSE b[page_id].words[i]]]]

\* Backend interface: Unbind releases the page; subsequent reads are zeros.
ApplyUnbind(b, page_id) ==
    [b EXCEPT ![page_id] = [bound |-> FALSE, words |-> Zeros(WordsPerPage)]]

ApplyOp(b, op) ==
    IF op.kind = "Bind" THEN ApplyBind(b, op.page_id, op.offset, op.words)
    ELSE ApplyUnbind(b, op.page_id)

RECURSIVE ApplyOps(_, _)
ApplyOps(b, ops) ==
    IF ops = <<>> THEN b ELSE ApplyOps(ApplyOp(b, Head(ops)), Tail(ops))

\* The binds of Flush's first loop, for the pages page_id .. TotalPages-1.
RECURSIVE BindOps(_, _, _)
BindOps(pages, ranges, page_id) ==
    IF page_id >= TotalPages THEN <<>>
    ELSE (IF ranges[page_id] # NoRange /\ pages[page_id] # NoPage
          THEN << [kind |-> "Bind", page_id |-> page_id, offset |-> ranges[page_id][1],
                   words |-> SubSeq(pages[page_id], ranges[page_id][1] + 1, ranges[page_id][2])] >>
          ELSE <<>>)
         \o BindOps(pages, ranges, page_id + 1)

\* Flush's second loop left out.
UnbindOps_None(frees, page_id) == <<>>

\* The unbinds of Flush's second loop.
RECURSIVE UnbindOps(_, _)
UnbindOps(frees, page_id) ==
    IF page_id >= TotalPages THEN <<>>
    ELSE (IF page_id \in frees THEN << [kind |-> "Unbind", page_id |-> page_id] >> ELSE <<>>)
         \o UnbindOps(frees, page_id + 1)

\* Flush without its second loop.
FlushOps_BindsOnly(pages, ranges, frees) ==
    BindOps(pages, ranges, 0)

\* DAGNodePool::Flush: binds for the dirty resident pages, then unbinds for the frees.
FlushOps(pages, ranges, frees) ==
    BindOps(pages, ranges, 0) \o UnbindOps(frees, 0)

(***************************************************************************)
(* SpecStore: the PagedStore driven by arbitrary calls                     *)
(***************************************************************************)
MaxWriteLen == 1
StorePages == {0, 1}
StoreWords == {1}

\* The write_page calls tried: <<page_id, offset, data>>. Page 0 gets writes at both
\* ends and of every tried length, page 1 one write at its start.
StoreWrites ==
    { <<0, 0, [i \in 1 .. n |-> w]>> : n \in 1 .. MaxWriteLen, w \in StoreWords }
    \cup { <<0, WordsPerPage - 1, <<1>> >>, <<1, 0, <<1>> >> }

\* The zero_page calls tried: <<page_id, offset, count>>.
StoreZeros == { <<0, 0, 1>> }

StoreInit ==
    /\ m_pages = [p \in PageIds |-> NoPage]
    /\ m_page_write_ranges = [p \in PageIds |-> NoRange]
    /\ m_page_frees = {}
    /\ backend = [p \in PageIds |-> [bound |-> FALSE, words |-> Zeros(WordsPerPage)]]
    /\ last_ops = <<>>
    /\ written = [p \in PageIds |-> {}]

\* write_page: WritePage, and the page's dirty range grows to cover the words.
write_page(fill, page_id, offset, data) ==
    /\ m_pages' = WritePage(m_pages, fill, page_id, offset, data)
    /\ m_page_write_ranges' = ExtendRange(m_page_write_ranges, page_id, offset, offset + Len(data))
    /\ written' = [written EXCEPT ![page_id] = @ \cup (offset .. (offset + Len(data) - 1))]

DoWritePage(fill, page_id, offset, data) ==
    /\ UNCHANGED notStore
    /\ offset + Len(data) <= WordsPerPage
    /\ write_page(fill, page_id, offset, data)
    /\ UNCHANGED <<m_page_frees, backend, last_ops>>

StoreWrite ==
    \E call \in StoreWrites, fill \in UninitWords :
        /\ (m_pages[call[1]] # NoPage => fill = 0)
        /\ DoWritePage(fill, call[1], call[2], call[3])

\* zero_page: "equivalent to write_page with zeros; still marks dirty".
StoreZero ==
    \E call \in StoreZeros, fill \in UninitWords :
        /\ (m_pages[call[1]] # NoPage => fill = 0)
        /\ DoWritePage(fill, call[1], call[2], Zeros(call[3]))

\* free_page: "releases the page's buffer and records the free".
FreePage(page_id) ==
    /\ UNCHANGED notStore
    /\ m_pages' = [m_pages EXCEPT ![page_id] = NoPage]
    /\ m_page_frees' = m_page_frees \cup {page_id}
    /\ written' = [written EXCEPT ![page_id] = {}]
    /\ UNCHANGED <<m_page_write_ranges, backend, last_ops>>

StoreFree == \E page_id \in StorePages : FreePage(page_id)

Flush ==
    /\ UNCHANGED notStore
    /\ last_ops' = FlushOps(m_pages, m_page_write_ranges, m_page_frees)
    /\ backend' = ApplyOps(backend, last_ops')
    /\ m_page_write_ranges' = [p \in PageIds |-> NoRange]
    /\ m_page_frees' = {}
    /\ UNCHANGED <<m_pages, written>>

NextStore == StoreWrite \/ StoreZero \/ StoreFree \/ Flush

(***************************************************************************)
(* SpecFlush: the PagedStore between two Flush calls, driven by one-word   *)
(* writes at both ends of a page and at the start of a second one, and by  *)
(* frees.                                                                  *)
(***************************************************************************)
FlushWrites == { <<0, 0, <<1>> >>, <<0, WordsPerPage - 1, <<1>> >>, <<1, 0, <<1>> >> }

FlushWrite ==
    \E call \in FlushWrites, fill \in UninitWords :
        /\ (m_pages[call[1]] # NoPage => fill = 0)
        /\ DoWritePage(fill, call[1], call[2], call[3])

NextFlush == FlushWrite \/ StoreFree \/ Flush

(***************************************************************************)
(* SpecMain: main() of src/main.cpp. The pools are abstracted to the roots  *)
(* they hand out: an EditResult is an id into `results`, which records the  *)
(* root it was computed from.                                              *)
(***************************************************************************)
MaxEdits == 2        \* push_edit calls that enqueue
MaxGCs == 1          \* presses of the GC button
InitialEdits == 4    \* the set_root(..) calls before the loop

NoTask == 0
NoResult == 0
EditTasks == 1 .. MaxEdits
IdleTask == [task |-> NoTask, kind |-> "none", args |-> "none", base |-> 0, result |-> NoResult]

GCCount == Cardinality({ i \in 1 .. Len(results) : results[i].by = "gc" })

\* The i-th initial edit: three vbr_edit, then one stateless_edit.
InitialKind(left) == IF left > 1 THEN "vbr" ELSE "stateless"

MainInit ==
    /\ main_pc = "init"
    /\ init_left = InitialEdits
    /\ edit_future = NoTask
    /\ edit_queue = <<>>
    /\ worker_pc = "idle"
    /\ worker_task = IdleTask
    /\ promise = [t \in EditTasks |-> NoResult]
    /\ node_root = 0
    /\ color_root = 0
    /\ results = <<>>
    /\ pushed = 0
    /\ last_push = "none"

\* set_root: SetRoot(node_ptr), and the color root when the result carries one.
set_root(result, node, color) ==
    IF results[result].kind = "vbr" THEN result ELSE color

\* The edit lambda: ThreadedEdit from GetRoot(); the result is a new EditResult.
NewResult(by, kind, base) == Append(results, [by |-> by, kind |-> kind, base |-> base])

\* One of the four set_root(edit(..)) calls in front of the loop, run on the main thread.
InitialEdit ==
    /\ UNCHANGED notMain
    /\ main_pc = "init"
    /\ init_left > 0
    /\ results' = NewResult("init", InitialKind(init_left), node_root)
    /\ node_root' = Len(results')
    /\ color_root' = IF InitialKind(init_left) = "vbr" THEN Len(results') ELSE color_root
    /\ init_left' = init_left - 1
    /\ UNCHANGED <<main_pc, edit_future, edit_queue, worker_pc, worker_task, promise, pushed, last_push>>

\* The flush() that ends the initial block; the loop starts.
InitialFlush ==
    /\ UNCHANGED notMain
    /\ main_pc = "init"
    /\ init_left = 0
    /\ main_pc' = "pop"
    /\ UNCHANGED <<init_left, edit_future, edit_queue, worker_pc, worker_task, promise,
                   node_root, color_root, results, pushed, last_push>>

\* pop_edit_result that never finds the future ready.
pop_edit_result_NeverReady == UNCHANGED <<node_root, color_root, edit_future>>

\* pop_edit_result: when the future is valid and ready, set_root(edit_future.get()).
pop_edit_result ==
    IF edit_future # NoTask /\ promise[edit_future] # NoResult
    THEN /\ node_root' = promise[edit_future]
         /\ color_root' = set_root(promise[edit_future], node_root, color_root)
         /\ edit_future' = NoTask
    ELSE UNCHANGED <<node_root, color_root, edit_future>>

PopEditResult ==
    /\ UNCHANGED notMain
    /\ main_pc = "pop"
    /\ pop_edit_result
    /\ main_pc' = "mouse"
    /\ UNCHANGED <<init_left, edit_queue, worker_pc, worker_task, promise, results, pushed, last_push>>

\* push_edit without its first two lines: enqueues whatever the future holds.
push_edit_NoGuard(kind, args) ==
    /\ edit_queue' = Append(edit_queue, [task |-> pushed + 1, kind |-> kind, args |-> args])
    /\ edit_future' = pushed + 1
    /\ pushed' = pushed + 1
    /\ last_push' = "enqueued"

\* push_edit: returns when edit_future.valid(), else enqueues the task in edit_pool
\* and keeps its future.
push_edit(kind, args) ==
    IF edit_future # NoTask
    THEN /\ last_push' = "returned"
         /\ UNCHANGED <<edit_queue, edit_future, pushed>>
    ELSE /\ edit_queue' = Append(edit_queue, [task |-> pushed + 1, kind |-> kind, args |-> args])
         /\ edit_future' = pushed + 1
         /\ pushed' = pushed + 1
         /\ last_push' = "enqueued"

\* The mouse block of the frame: no button, or LEFT (stateless dig) or RIGHT (vbr
\* paint / fill); the editor is a temporary of the call.
MouseNone ==
    /\ UNCHANGED notMain
    /\ main_pc = "mouse"
    /\ main_pc' = "gc_button"
    /\ UNCHANGED <<init_left, edit_future, edit_queue, worker_pc, worker_task, promise,
                   node_root, color_root, results, pushed, last_push>>

MousePush ==
    /\ UNCHANGED notMain
    /\ main_pc = "mouse"
    /\ pushed < MaxEdits
    /\ \E kind \in {"stateless", "vbr"} : push_edit(kind, "temporary")
    /\ main_pc' = "gc_button"
    /\ UNCHANGED <<init_left, worker_pc, worker_task, promise, node_root, color_root, results>>

\* The GC button: not pressed, or set_root(gc()) then flush(), all on the main thread.
GCSkip ==
    /\ UNCHANGED notMain
    /\ main_pc = "gc_button"
    /\ main_pc' = "import"
    /\ UNCHANGED <<init_left, edit_future, edit_queue, worker_pc, worker_task, promise,
                   node_root, color_root, results, pushed, last_push>>

\* gc(): ThreadedGC(&busy_pool, GetRoot()) starts from the root installed now.
GCBegin ==
    /\ UNCHANGED notMain
    /\ main_pc = "gc_button"
    /\ GCCount < MaxGCs
    /\ results' = NewResult("gc", "stateless", node_root)
    /\ main_pc' = "gc"
    /\ UNCHANGED <<init_left, edit_future, edit_queue, worker_pc, worker_task, promise,
                   node_root, color_root, pushed, last_push>>

\* The EditResult of the gc() call in progress: the latest one ThreadedGC made.
GCResult ==
    CHOOSE i \in 1 .. Len(results) :
        /\ results[i].by = "gc"
        /\ \A j \in (i + 1) .. Len(results) : results[j].by # "gc"

\* set_root(gc()): the root ThreadedGC returned is installed; opt_color_ptr is nullopt.
GCSetRoot ==
    /\ UNCHANGED notMain
    /\ main_pc = "gc"
    /\ node_root' = GCResult
    /\ main_pc' = "gc_flush"
    /\ UNCHANGED <<init_left, edit_future, edit_queue, worker_pc, worker_task, promise,
                   color_root, results, pushed, last_push>>

GCFlush ==
    /\ UNCHANGED notMain
    /\ main_pc = "gc_flush"
    /\ main_pc' = "import"
    /\ UNCHANGED <<init_left, edit_future, edit_queue, worker_pc, worker_task, promise,
                   node_root, color_root, results, pushed, last_push>>

\* The Import VOX button: not pressed, or push_edit(vbr_edit, vox_importer) with the
\* static importer.
ImportNone ==
    /\ UNCHANGED notMain
    /\ main_pc = "import"
    /\ main_pc' = "pop"
    /\ UNCHANGED <<init_left, edit_future, edit_queue, worker_pc, worker_task, promise,
                   node_root, color_root, results, pushed, last_push>>

ImportPush ==
    /\ UNCHANGED notMain
    /\ main_pc = "import"
    /\ pushed < MaxEdits
    /\ push_edit("vbr", "static")
    /\ main_pc' = "pop"
    /\ UNCHANGED <<init_left, worker_pc, worker_task, promise, node_root, color_root, results>>

\* The worker of edit_pool(1) takes the oldest task. The task lambda holds its
\* arguments by reference: a temporary editor is gone by now, and what the edit
\* reads through the reference is either the old bytes or anything else. The edit
\* starts here: ThreadedEdit is handed GetRoot() as it is now.
WorkerTake ==
    /\ UNCHANGED notMain
    /\ worker_pc = "idle"
    /\ edit_queue # <<>>
    /\ \E seen \in {"intact", "clobbered"} :
        /\ (Head(edit_queue).args = "static" => seen = "intact")
        /\ worker_task' = [task |-> Head(edit_queue).task, kind |-> Head(edit_queue).kind,
                           args |-> seen, base |-> node_root, result |-> NoResult]
    /\ edit_queue' = Tail(edit_queue)
    /\ worker_pc' = "edit"
    /\ UNCHANGED <<main_pc, init_left, edit_future, promise, node_root, color_root, results, pushed, last_push>>

\* result = edit_func(args...): ThreadedEdit returns the root it built from the root
\* it was handed.
WorkerEdit ==
    /\ UNCHANGED notMain
    /\ worker_pc = "edit"
    /\ results' = NewResult("edit", worker_task.kind, worker_task.base)
    /\ worker_task' = [worker_task EXCEPT !.result = Len(results')]
    /\ worker_pc' = "flush"
    /\ UNCHANGED <<main_pc, init_left, edit_future, edit_queue, promise, node_root, color_root, pushed, last_push>>

\* flush(); return result: the future of the task becomes ready.
WorkerFlushReturn ==
    /\ UNCHANGED notMain
    /\ worker_pc = "flush"
    /\ promise' = [promise EXCEPT ![worker_task.task] = worker_task.result]
    /\ worker_task' = IdleTask
    /\ worker_pc' = "idle"
    /\ UNCHANGED <<main_pc, init_left, edit_future, edit_queue, node_root, color_root, results, pushed, last_push>>

NextMain ==
    \/ InitialEdit \/ InitialFlush
    \/ PopEditResult
    \/ MouseNone \/ MousePush
    \/ GCSkip \/ GCBegin \/ GCSetRoot \/ GCFlush
    \/ ImportNone \/ ImportPush
    \/ WorkerTake \/ WorkerEdit \/ WorkerFlushReturn

\* A step of the main thread, and a step of the worker of edit_pool.
MainStep ==
    \/ InitialEdit \/ InitialFlush
    \/ PopEditResult
    \/ MouseNone \/ MousePush
    \/ GCSkip \/ GCBegin \/ GCSetRoot \/ GCFlush
    \/ ImportNone \/ ImportPush

WorkerStep == WorkerTake \/ WorkerEdit \/ WorkerFlushReturn

(***************************************************************************)
(* NodePool: node words, buckets, find_node and the append at the tail     *)
(***************************************************************************)
\* NodePointer::Null() and NodePointer::Filled(): reserved high patterns of the
\* (scaled) pointer word; every other pointer is a word offset into the pool.
PtrNull == 255
PtrFilled == 254

LeafLevel == Len(BucketBitsEachLevel) - 1
\* A leaf is two words of voxel bits.
LeafWords == 2

RECURSIVE PopCount(_)
PopCount(mask) == IF mask = 0 THEN 0 ELSE (mask % 2) + PopCount(mask \div 2)

\* get_node_words: the words of the node that starts with `header`; an inner node is
\* its child mask followed by one pointer per set bit.
get_node_words(level, header) ==
    IF level = LeafLevel THEN LeafWords ELSE 1 + PopCount(header % 256)

RECURSIVE SumWords(_)
SumWords(words) == IF words = <<>> THEN 0 ELSE Head(words) + SumWords(Tail(words))

\* The hash of the node content (stands for MurmurHasher32: any fixed function of
\* the words).
Hash(words) == SumWords(words) + Len(words)

\* bucket_index = hash(node_content) % buckets_at_level; global = level base + index.
calculate_bucket(level, node_span) ==
    LevelBaseBucket(level) + (Hash(node_span) % BucketsAtLevel(level))

\* ReadPage: m_pages[page_id].get(), the page's buffer, NoPage (the null pointer) for
\* a page that has no buffer.
ReadPage(pages, page_id) == pages[page_id]

\* The capacity check with room for one word more than the bucket holds.
HasRoom_OneOver(bucket_words, node_span) ==
    bucket_words + Len(node_span) <= WordsPerBucket + 1

\* The capacity check before an append: the node fits in what is left of its bucket;
\* if not the upsert fails with OutOfBuckets.
HasRoom(bucket_words, node_span) ==
    bucket_words + Len(node_span) <= WordsPerBucket

\* find_node_in_page: walk the nodes of one page from word `pos` up to `limit`, each
\* as long as its first word says, and compare word for word. A node that does not
\* end inside the page is not a node of this page.
RECURSIVE find_node_in_page(_, _, _, _, _, _)
find_node_in_page(page_data, pos, limit, level, node_span, page_address) ==
    IF pos >= limit THEN PtrNull
    ELSE LET n == get_node_words(level, page_data[pos + 1])
         IN  IF pos + n > limit THEN PtrNull
             ELSE IF n = Len(node_span) /\ SubSeq(page_data, pos + 1, pos + n) = node_span
                  THEN page_address + pos
                  ELSE find_node_in_page(page_data, pos + n, limit, level, node_span, page_address)

\* find_node: page after page through the bucket's used words, from the page that
\* holds begin_bucket_word.
RECURSIVE find_node_from(_, _, _, _, _, _, _)
find_node_from(pages, bucket_index, bucket_words, begin_bucket_word, page_offset, level, node_span) ==
    IF page_offset >= bucket_words THEN PtrNull
    ELSE LET page_id == bucket_index * PagesPerBucket + (page_offset \div WordsPerPage)
             lo == IF begin_bucket_word > page_offset THEN begin_bucket_word - page_offset ELSE 0
             hi == Min(WordsPerPage, bucket_words - page_offset)
             result == find_node_in_page(ReadPage(pages, page_id), lo, hi, level, node_span,
                                         bucket_index * WordsPerBucket + page_offset)
         IN  IF result # PtrNull THEN result
             ELSE find_node_from(pages, bucket_index, bucket_words, begin_bucket_word,
                                 page_offset + WordsPerPage, level, node_span)

find_node(pages, bucket_index, bucket_words, begin_bucket_word, level, node_span) ==
    find_node_from(pages, bucket_index, bucket_words, begin_bucket_word,
                   begin_bucket_word - (begin_bucket_word % WordsPerPage), level, node_span)

\* The write_page call that stores the part of the node lying in the page of bucket
\* word `at`: the words from index `done` + 1 on, up to the end of that page.
PieceLen(at, left) == Min(left, WordsPerPage - (at % WordsPerPage))
PiecePage(bucket_index, at) == bucket_index * PagesPerBucket + (at \div WordsPerPage)

(***************************************************************************)
(* SpecPool: tasks of one edit upserting into the NodePool concurrently,    *)
(* one step per shared-memory access of upsert_node<ThreadSafe>.           *)
(***************************************************************************)
MaxUpserts == 3
Tasks == {"t1", "t2"}
NoOwner == "none"
EditMutexes == {0, 1}

\* The candidate nodes, <<level, words>>: three inner nodes of level 0 with Filled
\* children, six, three and eight words long.
PoolNodes ==
    { <<0, <<31, PtrFilled, PtrFilled, PtrFilled, PtrFilled, PtrFilled>> >>,
      <<0, <<3, PtrFilled, PtrFilled>> >>,
      <<0, <<127, PtrFilled, PtrFilled, PtrFilled, PtrFilled, PtrFilled, PtrFilled, PtrFilled>> >> }

GetBucketRefMutex(bucket_id) == bucket_id % Cardinality(EditMutexes)

IdleUpsert == [pc |-> "idle", level |-> 0, node |-> <<>>, bucket |-> 0,
               shared |-> 0, used |-> 0, done |-> 0]

PoolInit ==
    /\ m_bucket_words = [b \in Buckets |-> 0]
    /\ m_edit_mutexes = [m \in EditMutexes |-> NoOwner]
    /\ task = [t \in Tasks |-> IdleUpsert]
    /\ appended = {}
    /\ returned = {}
    /\ upserts = 0

\* The lock left held at the end of its scope.
Unlock_Keep(t) == m_edit_mutexes

\* The unique_lock goes out of scope: the bucket's mutex is released.
Unlock(t) == [m_edit_mutexes EXCEPT ![GetBucketRefMutex(task[t].bucket)] = NoOwner]

\* What an upsert hands back: a pointer, or the OutOfBuckets failure.
Return(t, ptr, ok) ==
    returned \cup {[level |-> task[t].level, words |-> task[t].node, ptr |-> ptr, ok |-> ok]}

\* upsert_node is entered: the bucket is computed and its used words are loaded with
\* memory_order_acquire.
UpsertLoad(t) ==
    /\ UNCHANGED notPool
    /\ task[t].pc = "idle"
    /\ upserts < MaxUpserts
    /\ \E cand \in PoolNodes :
        LET b == calculate_bucket(cand[1], cand[2])
        IN  task' = [task EXCEPT ![t] = [pc |-> "scan", level |-> cand[1], node |-> cand[2],
                                         bucket |-> b, shared |-> m_bucket_words[b],
                                         used |-> 0, done |-> 0]]
    /\ upserts' = upserts + 1
    /\ UNCHANGED <<m_pages, m_page_write_ranges, written, m_bucket_words, m_edit_mutexes,
                   appended, returned>>

\* The lock-free attempt: find_node(bucket_index, shared_bucket_words, 0, node_span).
UpsertScan(t) ==
    /\ UNCHANGED notPool
    /\ task[t].pc = "scan"
    /\ LET existing == find_node(m_pages, task[t].bucket, task[t].shared, 0,
                                 task[t].level, task[t].node)
       IN  IF existing # PtrNull
           THEN /\ returned' = Return(t, existing, TRUE)
                /\ task' = [task EXCEPT ![t] = IdleUpsert]
           ELSE /\ task' = [task EXCEPT ![t].pc = "lock"]
                /\ UNCHANGED returned
    /\ UNCHANGED <<m_pages, m_page_write_ranges, written, m_bucket_words, m_edit_mutexes,
                   appended, upserts>>

\* std::unique_lock lock{get_bucket_ref_mutex(bucket_index)}
UpsertLock(t) ==
    /\ UNCHANGED notPool
    /\ task[t].pc = "lock"
    /\ m_edit_mutexes[GetBucketRefMutex(task[t].bucket)] = NoOwner
    /\ m_edit_mutexes' = [m_edit_mutexes EXCEPT ![GetBucketRefMutex(task[t].bucket)] = t]
    /\ task' = [task EXCEPT ![t].pc = "locked"]
    /\ UNCHANGED <<m_pages, m_page_write_ranges, written, m_bucket_words, appended,
                   returned, upserts>>

\* Under the lock: reload the used words, scan the suffix from the used words of the
\* unlocked scan; on a miss check the capacity and go on to write at the tail.
UpsertLocked(t) ==
    /\ UNCHANGED notPool
    /\ task[t].pc = "locked"
    /\ LET used == m_bucket_words[task[t].bucket]
           existing == find_node(m_pages, task[t].bucket, used, task[t].shared,
                                 task[t].level, task[t].node)
       IN  IF existing # PtrNull
           THEN /\ returned' = Return(t, existing, TRUE)
                /\ task' = [task EXCEPT ![t] = IdleUpsert]
                /\ m_edit_mutexes' = Unlock(t)
                /\ UNCHANGED appended
           ELSE IF ~HasRoom(used, task[t].node)
           THEN /\ returned' = Return(t, PtrNull, FALSE)
                /\ task' = [task EXCEPT ![t] = IdleUpsert]
                /\ m_edit_mutexes' = Unlock(t)
                /\ UNCHANGED appended
           ELSE /\ task' = [task EXCEPT ![t].pc = "write", ![t].used = used, ![t].done = 0]
                /\ appended' = appended \cup {[bucket |-> task[t].bucket, offset |-> used,
                                               words |-> task[t].node, by |-> t]}
                /\ UNCHANGED <<returned, m_edit_mutexes>>
    /\ UNCHANGED <<m_pages, m_page_write_ranges, written, m_bucket_words, upserts>>

\* One write_page call: the words of the node that lie in the page of the tail.
UpsertWrite(t) ==
    /\ UNCHANGED notPool
    /\ task[t].pc = "write"
    /\ LET at == task[t].used + task[t].done
           len == PieceLen(at, Len(task[t].node) - task[t].done)
           page_id == PiecePage(task[t].bucket, at)
       IN  /\ \E fill \in UninitWords :
                /\ (m_pages[page_id] # NoPage => fill = 0)
                /\ write_page(fill, page_id, at % WordsPerPage,
                              SubSeq(task[t].node, task[t].done + 1, task[t].done + len))
           /\ task' = [task EXCEPT ![t].done = task[t].done + len,
                                   ![t].pc = IF task[t].done + len = Len(task[t].node)
                                             THEN "publish" ELSE "write"]
    /\ UNCHANGED <<m_bucket_words, m_edit_mutexes, appended, returned, upserts>>

\* The new used words are stored with memory_order_release, the lock is dropped and
\* the address of the node is returned.
UpsertPublish(t) ==
    /\ UNCHANGED notPool
    /\ task[t].pc = "publish"
    /\ m_bucket_words' = [m_bucket_words EXCEPT ![task[t].bucket] = task[t].used + Len(task[t].node)]
    /\ m_edit_mutexes' = Unlock(t)
    /\ returned' = Return(t, task[t].bucket * WordsPerBucket + task[t].used, TRUE)
    /\ task' = [task EXCEPT ![t] = IdleUpsert]
    /\ UNCHANGED <<m_pages, m_page_write_ranges, written, appended, upserts>>

\* The steps of a task inside upsert_node.
TaskStep(t) ==
    UpsertScan(t) \/ UpsertLock(t) \/ UpsertLocked(t) \/ UpsertWrite(t) \/ UpsertPublish(t)

NextPool ==
    \E t \in Tasks :
        \/ UpsertLoad(t) \/ UpsertScan(t) \/ UpsertLock(t)
        \/ UpsertLocked(t) \/ UpsertWrite(t) \/ UpsertPublish(t)

(***************************************************************************)
(* SpecLock: upserts of an inner node of level 0 and of two leaves. The     *)
(* bucket of level 0 and the bucket of one of the leaves share a mutex of   *)
(* m_edit_mutexes; the workers of the pool run every task that can step.    *)
(***************************************************************************)
LockNodes ==
    { <<0, <<3, PtrFilled, PtrFilled>> >>,
      <<LeafLevel, <<1, 0>> >>,
      <<LeafLevel, <<1, 1>> >> }

\* upsert_node is entered with one of the nodes of LockNodes.
LockLoad(t) ==
    /\ UNCHANGED notPool
    /\ task[t].pc = "idle"
    /\ upserts < MaxUpserts
    /\ \E cand \in LockNodes :
        LET b == calculate_bucket(cand[1], cand[2])
        IN  task' = [task EXCEPT ![t] = [pc |-> "scan", level |-> cand[1], node |-> cand[2],
                                         bucket |-> b, shared |-> m_bucket_words[b],
                                         used |-> 0, done |-> 0]]
    /\ upserts' = upserts + 1
    /\ UNCHANGED <<m_pages, m_page_write_ranges, written, m_bucket_words, m_edit_mutexes,
                   appended, returned>>

NextLock ==
    \E t \in Tasks :
        \/ LockLoad(t) \/ UpsertScan(t) \/ UpsertLock(t)
        \/ UpsertLocked(t) \/ UpsertWrite(t) \/ UpsertPublish(t)

(***************************************************************************)
(* Coordinates and the editors of main.cpp                                 *)
(***************************************************************************)
\* A leaf holds a cube of 2^LeafSideBits voxels a side (scaled down from 4x4x4): its
\* bits fill LeafWords words, VoxelsPerLeaf \div LeafWords bits each.
LeafSideBits == 1
VoxelLevel == LeafLevel + LeafSideBits
Resolution == Pow2(VoxelLevel)
VoxelsPerLeaf == Pow2(3 * LeafSideBits)
BitsPerLeafWord == VoxelsPerLeaf \div LeafWords
Voxels == (0 .. Resolution - 1) \X (0 .. Resolution - 1) \X (0 .. Resolution - 1)
Axes == 1 .. 3

RootCoord == [level |-> 0, pos |-> <<0, 0, 0>>]

\* Octant i of a node, z-y-x major: i = 4z + 2y + x.
OctantOffset(i) == <<i % 2, (i \div 2) % 2, i \div 4>>

\* NodeCoord::GetChild
GetChildCoord(coord, i) ==
    [level |-> coord.level + 1,
     pos |-> [a \in Axes |-> 2 * coord.pos[a] + OctantOffset(i)[a]]]

\* The voxel i of the leaf at coord (coord.get_voxel_coord).
GetVoxelCoord(coord, i) ==
    [level |-> VoxelLevel,
     pos |-> [a \in Axes |-> Pow2(LeafSideBits) * coord.pos[a] + OctantOffset(i)[a]]]

GetLowerBoundAtLevel(coord, level) ==
    [a \in Axes |-> coord.pos[a] * Pow2(level - coord.level)]
GetUpperBoundAtLevel(coord, level) ==
    [a \in Axes |-> (coord.pos[a] + 1) * Pow2(level - coord.level)]

\* VBRColor{}: no color.
NoColor == 0

\* AABBEditor::VoxelInRange with the upper bound included.
AABB_VoxelInRange_Inclusive(ed, coord) ==
    /\ \A a \in Axes : coord.pos[a] >= ed.aabb_min[a]
    /\ \A a \in Axes : coord.pos[a] <= ed.aabb_max[a]

\* AABBEditor::VoxelInRange
AABB_VoxelInRange(ed, coord) ==
    /\ \A a \in Axes : coord.pos[a] >= ed.aabb_min[a]
    /\ \A a \in Axes : coord.pos[a] < ed.aabb_max[a]

\* AABBEditor::EditNode (geometry) with the kFill test on the lower bound alone.
AABB_EditNode_LowerOnly(ed, coord) ==
    LET lb == GetLowerBoundAtLevel(coord, VoxelLevel)
        ub == GetUpperBoundAtLevel(coord, VoxelLevel)
    IN  IF (\E a \in Axes : ub[a] <= ed.aabb_min[a]) \/ (\E a \in Axes : lb[a] >= ed.aabb_max[a])
        THEN "kNotAffected"
        ELSE IF \A a \in Axes : lb[a] >= ed.aabb_min[a]
        THEN "kFill"
        ELSE "kProceed"

\* AABBEditor::EditNode (geometry)
AABB_EditNode(ed, coord) ==
    LET lb == GetLowerBoundAtLevel(coord, VoxelLevel)
        ub == GetUpperBoundAtLevel(coord, VoxelLevel)
    IN  IF (\E a \in Axes : ub[a] <= ed.aabb_min[a]) \/ (\E a \in Axes : lb[a] >= ed.aabb_max[a])
        THEN "kNotAffected"
        ELSE IF (\A a \in Axes : lb[a] >= ed.aabb_min[a]) /\ (\A a \in Axes : ub[a] <= ed.aabb_max[a])
        THEN "kFill"
        ELSE "kProceed"

\* AABBEditor::EditNode (VBR) without the kFill test: final_color is set only over a
\* Null pointer or a subtree that has the color already.
AABB_EditNodeVBR_FillUnset(ed, coord, ptr, final_color) ==
    [type |-> AABB_EditNode(ed, coord),
     color |-> IF ptr = PtrNull \/ final_color = ed.color THEN ed.color ELSE NoColor]

\* AABBEditor::EditNode (VBR): the decision and final_color on return.
AABB_EditNodeVBR(ed, coord, ptr, final_color) ==
    LET edit_type == AABB_EditNode(ed, coord)
    IN  [type |-> edit_type,
         color |-> IF edit_type = "kFill" \/ ptr = PtrNull \/ final_color = ed.color
                   THEN ed.color ELSE NoColor]

Sq(n) == n * n

\* SphereEditor::VoxelInRange with the sphere's surface left out.
Sphere_VoxelInRange_Open(ed, coord) ==
    Sq(coord.pos[1] - ed.center[1]) + Sq(coord.pos[2] - ed.center[2])
        + Sq(coord.pos[3] - ed.center[3]) < ed.r2

\* SphereEditor::VoxelInRange
Sphere_VoxelInRange(ed, coord) ==
    Sq(coord.pos[1] - ed.center[1]) + Sq(coord.pos[2] - ed.center[2])
        + Sq(coord.pos[3] - ed.center[3]) <= ed.r2

\* SphereEditor<Mode>::EditNode (geometry)
Sphere_EditNode(ed, coord) ==
    LET lb == GetLowerBoundAtLevel(coord, VoxelLevel)
        ub == GetUpperBoundAtLevel(coord, VoxelLevel)
        lb_dist == [a \in Axes |-> lb[a] - ed.center[a]]
        ub_dist == [a \in Axes |-> ub[a] - ed.center[a]]
        max_dist_2 == [a \in Axes |-> Max(Sq(lb_dist[a]), Sq(ub_dist[a]))]
        max_n2 == max_dist_2[1] + max_dist_2[2] + max_dist_2[3]
        min_axis(a) == (IF lb_dist[a] > 0 THEN Sq(lb_dist[a]) ELSE 0)
                       + (IF ub_dist[a] < 0 THEN Sq(ub_dist[a]) ELSE 0)
        min_n2 == min_axis(1) + min_axis(2) + min_axis(3)
    IN  IF max_n2 <= ed.r2
        THEN (IF ed.kind = "sphere_dig" THEN "kClear" ELSE "kFill")
        ELSE IF min_n2 > ed.r2 THEN "kNotAffected" ELSE "kProceed"

\* SphereEditor<kPaint>::EditNode (VBR) without the test of the pointer at its end:
\* only kFill becomes kNotAffected.
Sphere_EditNodeVBR_PaintsNull(ed, coord, ptr, final_color) ==
    LET edit_type == Sphere_EditNode(ed, coord)
    IN  [type |-> IF ed.kind = "sphere_paint" /\ edit_type = "kFill" THEN "kNotAffected"
                  ELSE edit_type,
         color |-> IF edit_type = "kFill" THEN ed.color
                   ELSE IF ptr = PtrNull \/ final_color = ed.color THEN ed.color
                   ELSE NoColor]

\* SphereEditor<kFill>::EditNode and SphereEditor<kPaint>::EditNode (VBR): kPaint
\* turns kFill, and any decision over a Null pointer, into kNotAffected.
Sphere_EditNodeVBR(ed, coord, ptr, final_color) ==
    LET edit_type == Sphere_EditNode(ed, coord)
        paint == ed.kind = "sphere_paint"
    IN  [type |-> IF paint /\ (edit_type = "kFill" \/ ptr = PtrNull) THEN "kNotAffected"
                  ELSE edit_type,
         color |-> IF edit_type = "kFill" THEN ed.color
                   ELSE IF ptr = PtrNull \/ final_color = ed.color THEN ed.color
                   ELSE NoColor]

\* Editor::EditNode / VBREditor::EditNode of the editor at hand. The stateless
\* editor has no color to thread.
EditNode(ed, coord, ptr, final_color) ==
    IF ed.kind = "aabb" THEN AABB_EditNodeVBR(ed, coord, ptr, final_color)
    ELSE IF ed.kind \in {"sphere_fill", "sphere_paint"}
    THEN Sphere_EditNodeVBR(ed, coord, ptr, final_color)
    ELSE [type |-> Sphere_EditNode(ed, coord), color |-> NoColor]

\* Editor::EditVoxel: the new bit.
EditVoxel(ed, coord, voxel) ==
    IF ed.kind = "aabb" THEN voxel \/ AABB_VoxelInRange(ed, coord)
    ELSE IF ed.kind = "sphere_fill" THEN voxel \/ Sphere_VoxelInRange(ed, coord)
    ELSE IF ed.kind = "sphere_paint" THEN voxel
    ELSE voxel /\ ~Sphere_VoxelInRange(ed, coord)

\* VBREditor::EditVoxel leaving the editor's color in every voxel.
EditVoxelColor_Everywhere(ed, coord, voxel, color) == ed.color

\* VBREditor::EditVoxel: the color left in the color argument.
EditVoxelColor(ed, coord, voxel, color) ==
    LET in_range == IF ed.kind = "aabb" THEN AABB_VoxelInRange(ed, coord)
                    ELSE Sphere_VoxelInRange(ed, coord)
    IN  IF in_range \/ ~voxel THEN ed.color ELSE color

\* vbr_edit wraps the editor in VBREditorWrapper, stateless_edit does not.
IsVBR(ed) == ed.kind \in {"aabb", "sphere_fill", "sphere_paint"}

(***************************************************************************)
(* Sequential pool operations and the edit recursion                       *)
(*                                                                         *)
(* A pool value P is the NodePool an edit works on: its pages with their    *)
(* dirty ranges, the used words of its buckets, and whether an upsert has   *)
(* failed with OutOfBuckets.                                               *)
(***************************************************************************)
\* The word at a pool address: read_page, then the word in the page. Every address
\* read is below the used words of its bucket, so its page is resident.
PoolWord(pages, address) ==
    ReadPage(pages, address \div WordsPerPage)[(address % WordsPerPage) + 1]

\* The write_page calls of one append, page after page from bucket word `at`.
RECURSIVE WritePieces(_, _, _, _, _)
WritePieces(P, fill, bucket_index, at, words) ==
    IF words = <<>> THEN P
    ELSE LET len == PieceLen(at, Len(words))
             page_id == PiecePage(bucket_index, at)
             offset == at % WordsPerPage
             f == IF P.pages[page_id] = NoPage THEN fill ELSE 0
         IN  WritePieces(
                 [P EXCEPT !.pages = WritePage(P.pages, f, page_id, offset, SubSeq(words, 1, len)),
                           !.ranges = ExtendRange(P.ranges, page_id, offset, offset + len),
                           !.written = [P.written EXCEPT ![page_id] = @ \cup (offset .. (offset + len - 1))]],
                 fill, bucket_index, at + len, SubSeq(words, len + 1, Len(words)))

\* upsert_node<false>: find the node in its bucket, else append it at the tail.
upsert_node(P, fill, level, node_span) ==
    LET bucket_index == calculate_bucket(level, node_span)
        bucket_words == P.used[bucket_index]
    IN  Only({ IF existing # PtrNull THEN [pool |-> P, ptr |-> existing]
               ELSE IF ~HasRoom(bucket_words, node_span)
               THEN [pool |-> [P EXCEPT !.ok = FALSE], ptr |-> PtrNull]
               ELSE [pool |-> [WritePieces(P, fill, bucket_index, bucket_words, node_span)
                                   EXCEPT !.used = [P.used EXCEPT ![bucket_index] =
                                                        bucket_words + Len(node_span)]],
                     ptr |-> bucket_index * WordsPerBucket + bucket_words] :
               existing \in {find_node(P.pages, bucket_index, bucket_words, 0, level, node_span)} })

OctantIds == 0 .. 7
VoxelIds == 0 .. (VoxelsPerLeaf - 1)

\* get_leaf_array: the voxel bits of a leaf, bit i at index i + 1.
get_leaf_array(pages, leaf) ==
    IF leaf = PtrNull THEN [i \in 1 .. VoxelsPerLeaf |-> FALSE]
    ELSE IF leaf = PtrFilled THEN [i \in 1 .. VoxelsPerLeaf |-> TRUE]
    ELSE [i \in 1 .. VoxelsPerLeaf |->
            (PoolWord(pages, leaf + ((i - 1) \div BitsPerLeafWord))
                \div Pow2((i - 1) % BitsPerLeafWord)) % 2 = 1]

RECURSIVE BitsValue(_, _, _)
BitsValue(leaf_data, from, count) ==
    IF count = 0 THEN 0
    ELSE (IF leaf_data[from] THEN 1 ELSE 0) + 2 * BitsValue(leaf_data, from + 1, count - 1)

\* The words of a leaf.
LeafSpan(leaf_data) ==
    [w \in 1 .. LeafWords |-> BitsValue(leaf_data, (w - 1) * BitsPerLeafWord + 1, BitsPerLeafWord)]

\* upsert_leaf without the normalization.
upsert_leaf_Raw(P, fill, level, leaf_data) ==
    upsert_node(P, fill, level, LeafSpan(leaf_data))

\* upsert_leaf: an empty leaf is Null and a full leaf is Filled; any other is upserted.
upsert_leaf(P, fill, level, leaf_data) ==
    IF \A i \in 1 .. VoxelsPerLeaf : ~leaf_data[i] THEN [pool |-> P, ptr |-> PtrNull]
    ELSE IF \A i \in 1 .. VoxelsPerLeaf : leaf_data[i] THEN [pool |-> P, ptr |-> PtrFilled]
    ELSE upsert_node(P, fill, level, LeafSpan(leaf_data))

\* get_unpacked_node_array: the eight child pointers of an inner node.
get_unpacked_node_array(pages, node) ==
    IF node = PtrNull THEN [i \in 1 .. 8 |-> PtrNull]
    ELSE IF node = PtrFilled THEN [i \in 1 .. 8 |-> PtrFilled]
    ELSE LET child_mask == PoolWord(pages, node) % 256
         IN  [i \in 1 .. 8 |->
                IF (child_mask \div Pow2(i - 1)) % 2 = 1
                THEN PoolWord(pages, node + 1 + PopCount(child_mask % Pow2(i - 1)))
                ELSE PtrNull]

RECURSIVE ChildMask(_, _)
ChildMask(children, i) ==
    IF i > 8 THEN 0
    ELSE (IF children[i] # PtrNull THEN Pow2(i - 1) ELSE 0) + ChildMask(children, i + 1)

\* get_packed_node_inplace: the child mask, then the pointers of the non-Null children.
RECURSIVE NonNullChildren(_, _)
NonNullChildren(children, i) ==
    IF i > 8 THEN <<>>
    ELSE (IF children[i] # PtrNull THEN <<children[i]>> ELSE <<>>) \o NonNullChildren(children, i + 1)

get_packed_node(children) ==
    <<ChildMask(children, 1)>> \o NonNullChildren(children, 1)

\* upsert_inner_node: all children Null is Null, all children Filled is Filled; any
\* other node is upserted.
upsert_inner_node(P, fill, level, children) ==
    IF \A i \in 1 .. 8 : children[i] = PtrNull THEN [pool |-> P, ptr |-> PtrNull]
    ELSE IF \A i \in 1 .. 8 : children[i] = PtrFilled THEN [pool |-> P, ptr |-> PtrFilled]
    ELSE upsert_node(P, fill, level, get_packed_node(children))

\* ColorPool pointers, by tag: Null, SolidColor with its color, VBRLeaf with the
\* colors its chunk decodes to, Node with its eight children.
ColorNull == <<"Null">>
SolidColor(c) == <<"SolidColor", c>>
VBRLeaf(colors) == <<"VBRLeaf", colors>>
ColorNode(children) == <<"Node", children>>

\* The color a subtree is filled with, if it is one solid color.
GetFill(color_ptr) == IF color_ptr[1] = "SolidColor" THEN color_ptr[2] ELSE NoColor

\* The color subtree of octant i (1 .. 8): a child of a Node, else the pointer itself.
GetColorChild(color_ptr, i) == IF color_ptr[1] = "Node" THEN color_ptr[2][i] ELSE color_ptr

\* The colors of the voxels of a color leaf.
GetLeafColors(color_ptr) ==
    IF color_ptr[1] = "VBRLeaf" THEN color_ptr[2]
    ELSE [i \in 1 .. VoxelsPerLeaf |-> GetFill(color_ptr)]

\* edit_inner_node's switch with kClear keeping the child.
NewChild_ClearKeeps(edit_type, child, proceeded) ==
    IF edit_type = "kNotAffected" THEN child
    ELSE IF edit_type = "kClear" THEN child
    ELSE IF edit_type = "kFill" THEN PtrFilled
    ELSE proceeded

\* edit_inner_node's switch on the decision: the new child pointer; `proceeded` is
\* what edit_node returned for kProceed.
NewChild(edit_type, child, proceeded) ==
    IF edit_type = "kNotAffected" THEN child
    ELSE IF edit_type = "kClear" THEN PtrNull
    ELSE IF edit_type = "kFill" THEN PtrFilled
    ELSE proceeded

\* The color output that goes with a decision (VBREditorWrapper): a final_color the
\* editor left set is the color of the whole subtree.
NewColorChild(edit_type, final_color, color_child, proceeded) ==
    IF edit_type = "kNotAffected"
    THEN (IF final_color # NoColor THEN SolidColor(final_color) ELSE color_child)
    ELSE IF edit_type = "kClear" THEN ColorNull
    ELSE IF edit_type = "kFill"
         THEN (IF final_color # NoColor THEN SolidColor(final_color) ELSE color_child)
    ELSE proceeded

\* edit_leaf: edit_voxel on every voxel; an unchanged leaf is returned as it is, a
\* changed one is upserted. With a VBR editor the colors are threaded along.
edit_leaf(P, fill, ed, coord, leaf, color_ptr) ==
    LET leaf_data == get_leaf_array(P.pages, leaf)
        new_data == [i \in 1 .. VoxelsPerLeaf |->
                        EditVoxel(ed, GetVoxelCoord(coord, i - 1), leaf_data[i])]
        old_colors == GetLeafColors(color_ptr)
        new_colors == [i \in 1 .. VoxelsPerLeaf |->
                        EditVoxelColor(ed, GetVoxelCoord(coord, i - 1), leaf_data[i], old_colors[i])]
    IN  Only({ [pool |-> up.pool, ptr |-> up.ptr,
                color |-> IF ~IsVBR(ed) THEN color_ptr
                          ELSE IF up.ptr = PtrNull THEN ColorNull ELSE VBRLeaf(new_colors),
                trace |-> <<>>] :
               up \in { IF new_data = leaf_data THEN [pool |-> P, ptr |-> leaf]
                        ELSE upsert_leaf(P, fill, coord.level, new_data) } })

RECURSIVE edit_node(_, _, _, _, _, _)
RECURSIVE EditChildren(_, _, _, _, _, _, _, _)

\* The loop of edit_inner_node over the children i .. 8; acc holds the children,
\* their colors, `changed` and the decisions taken so far.
EditChildren(P, fill, ed, coord, children, color_ptr, i, acc) ==
    IF i > 8 THEN [pool |-> P] @@ acc
    ELSE LET child_coord == GetChildCoord(coord, i - 1)
             child == children[i]
             color_child == GetColorChild(color_ptr, i)
             d == EditNode(ed, child_coord, child, GetFill(color_child))
             Step(r) ==
                LET new_child == NewChild(d.type, child, r.ptr)
                    new_color == IF ~IsVBR(ed) THEN color_child
                                 ELSE IF new_child = PtrNull THEN ColorNull
                                 ELSE NewColorChild(d.type, d.color, color_child, r.color)
                    step == [level |-> child_coord.level, pos |-> child_coord.pos,
                             type |-> d.type, before |-> child,
                             after |-> new_child, color |-> new_color, final_color |-> d.color,
                             upserted |-> r.pool.used # P.used]
                IN  [children |-> [acc.children EXCEPT ![i] = new_child],
                     colors |-> [acc.colors EXCEPT ![i] = new_color],
                     changed |-> acc.changed \/ d.type \in {"kClear", "kFill"}
                                   \/ (d.type = "kProceed" /\ new_child # child),
                     trace |-> acc.trace \o <<step>> \o r.trace]
         IN  Only({ Only({ EditChildren(r.pool, fill, ed, coord, children, color_ptr, i + 1, a) :
                           a \in {Step(r)} }) :
                    r \in { IF d.type = "kProceed"
                            THEN edit_node(P, fill, ed, child_coord, child, color_child)
                            ELSE [pool |-> P, ptr |-> child, color |-> color_child,
                                  trace |-> <<>>] } })

\* edit_inner_node: rewrite the children; an unchanged node is returned as it is, a
\* changed one is packed and upserted.
edit_inner_node(P, fill, ed, coord, node, color_ptr) ==
    Only({ Only({ [pool |-> up.pool, ptr |-> up.ptr,
                   color |-> IF ~IsVBR(ed) THEN color_ptr
                             ELSE IF up.ptr = PtrNull THEN ColorNull ELSE ColorNode(r.colors),
                   trace |-> r.trace] :
                  up \in { IF ~r.changed THEN [pool |-> r.pool, ptr |-> node]
                           ELSE upsert_inner_node(r.pool, fill, coord.level, r.children) } }) :
           r \in { Only({ EditChildren(P, fill, ed, coord, children, color_ptr, 1,
                              [children |-> children,
                               colors |-> [i \in 1 .. 8 |-> GetColorChild(color_ptr, i)],
                               changed |-> FALSE, trace |-> <<>>]) :
                          children \in {get_unpacked_node_array(P.pages, node)} }) } })

edit_node(P, fill, ed, coord, node, color_ptr) ==
    IF coord.level = LeafLevel
    THEN edit_leaf(P, fill, ed, coord, node, color_ptr)
    ELSE edit_inner_node(P, fill, ed, coord, node, color_ptr)

\* ThreadedEdit going down into the root without asking the editor about it.
ThreadedEdit_NoRootDecision(P, fill, ed, root, octree_root) ==
    edit_node(P, fill, ed, RootCoord, root, octree_root)

\* ThreadedEdit: the rewrite of the root. The editor decides for the root as it does
\* for every child; only kProceed goes down into edit_node.
ThreadedEdit(P, fill, ed, root, octree_root) ==
    LET d == EditNode(ed, RootCoord, root, GetFill(octree_root))
        Result(r) ==
            LET new_root == NewChild(d.type, root, r.ptr)
                new_color == IF ~IsVBR(ed) THEN octree_root
                             ELSE IF new_root = PtrNull THEN ColorNull
                             ELSE NewColorChild(d.type, d.color, octree_root, r.color)
                step == [level |-> 0, pos |-> RootCoord.pos,
                         type |-> d.type, before |-> root, after |-> new_root,
                         color |-> new_color, final_color |-> d.color,
                         upserted |-> r.pool.used # P.used]
            IN  [pool |-> r.pool, ptr |-> new_root, color |-> new_color,
                 trace |-> <<step>> \o r.trace]
    IN  Only({ Result(r) :
               r \in { IF d.type = "kProceed"
                       THEN edit_node(P, fill, ed, RootCoord, root, octree_root)
                       ELSE [pool |-> P, ptr |-> root, color |-> octree_root, trace |-> <<>>] } })

(***************************************************************************)
(* Reading a world back, and the garbage collector                         *)
(***************************************************************************)
\* Is voxel p occupied in the subtree `ptr` of `level`?
RECURSIVE Occupied(_, _, _, _)
Occupied(pages, ptr, level, p) ==
    IF ptr = PtrNull THEN FALSE
    ELSE IF ptr = PtrFilled THEN TRUE
    ELSE IF level = LeafLevel
    THEN get_leaf_array(pages, ptr)[1 + (p[1] % 2) + 2 * (p[2] % 2) + 4 * (p[3] % 2)]
    ELSE LET shift == Pow2(VoxelLevel - level - 1)
             i == ((p[1] \div shift) % 2) + 2 * ((p[2] \div shift) % 2) + 4 * ((p[3] \div shift) % 2)
         IN  Occupied(pages, get_unpacked_node_array(pages, ptr)[i + 1], level + 1, p)

\* The color voxel p decodes to in the color subtree `color_ptr` of `level`.
RECURSIVE ColorAt(_, _, _)
ColorAt(color_ptr, level, p) ==
    IF color_ptr[1] = "Null" THEN NoColor
    ELSE IF color_ptr[1] = "SolidColor" THEN color_ptr[2]
    ELSE IF color_ptr[1] = "VBRLeaf"
    THEN color_ptr[2][1 + (p[1] % 2) + 2 * (p[2] % 2) + 4 * (p[3] % 2)]
    ELSE LET shift == Pow2(VoxelLevel - level - 1)
             i == ((p[1] \div shift) % 2) + 2 * ((p[2] \div shift) % 2) + 4 * ((p[3] \div shift) % 2)
         IN  ColorAt(color_ptr[2][i + 1], level + 1, p)

EmptyPool ==
    [pages |-> [p \in PageIds |-> NoPage],
     ranges |-> [p \in PageIds |-> NoRange],
     written |-> [p \in PageIds |-> {}],
     used |-> [b \in Buckets |-> 0],
     ok |-> TRUE]

\* Compaction: emit the live node `ptr` of the old pages into the shadow pool S by
\* the normal upsert, its children first so that it holds their shadow addresses.
RECURSIVE EmitLive(_, _, _, _, _)
RECURSIVE EmitChildren(_, _, _, _, _, _)
EmitChildren(S, fill, pages, level, children, i) ==
    IF i > 8 THEN [pool |-> S, children |-> children]
    ELSE Only({ Only({ EmitChildren(r.pool, fill, pages, level, c, i + 1) :
                       c \in {[children EXCEPT ![i] = r.ptr]} }) :
                r \in {EmitLive(S, fill, pages, level, children[i])} })

EmitLive(S, fill, pages, level, ptr) ==
    IF ptr \in {PtrNull, PtrFilled} THEN [pool |-> S, ptr |-> ptr]
    ELSE IF level = LeafLevel
    THEN upsert_node(S, fill, level, [w \in 1 .. LeafWords |-> PoolWord(pages, ptr + w - 1)])
    ELSE Only({ upsert_node(r.pool, fill, level, get_packed_node(r.children)) :
                r \in { Only({ EmitChildren(S, fill, pages, level + 1, c, 1) :
                               c \in {get_unpacked_node_array(pages, ptr)} }) } })

\* ThreadedGC: the live nodes go to a fresh shadow pool, which replaces the pages;
\* the remapped root is returned.
ThreadedGC(fill, pages, root) == EmitLive(EmptyPool, fill, pages, 0, root)

\* gc that compacts the pool and hands back the Null root.
gc_NullRoot(fill, pages, root) ==
    Only({ [pool |-> r.pool, node_ptr |-> PtrNull, opt_color_ptr |-> <<"nullopt">>] :
           r \in {ThreadedGC(fill, pages, root)} })

\* The gc lambda of main(): {ThreadedGC(GetRoot()), nullopt}.
gc(fill, pages, root) ==
    Only({ [pool |-> r.pool, node_ptr |-> r.ptr, opt_color_ptr |-> <<"nullopt">>] :
           r \in {ThreadedGC(fill, pages, root)} })

(***************************************************************************)
(* SpecEdit: edits and GCs applied one after the other to one world, each   *)
(* followed by set_root; flush in between.                                 *)
(***************************************************************************)
MaxOps == 3

\* The editors tried: boxes and spheres as main() builds them.
Editors ==
    { [kind |-> "aabb", aabb_min |-> <<0, 0, 0>>, aabb_max |-> <<4, 4, 2>>, color |-> 1],
      [kind |-> "aabb", aabb_min |-> <<1, 1, 1>>, aabb_max |-> <<3, 3, 3>>, color |-> 2],
      [kind |-> "aabb", aabb_min |-> <<0, 0, 0>>, aabb_max |-> <<4, 4, 4>>, color |-> 1],
      [kind |-> "sphere_fill", center |-> <<0, 0, 0>>, r2 |-> 4, color |-> 2],
      [kind |-> "sphere_paint", center |-> <<0, 0, 1>>, r2 |-> 9, color |-> 3],
      [kind |-> "sphere_dig", center |-> <<3, 3, 1>>, r2 |-> 3, color |-> NoColor] }

EditInit ==
    /\ m_root = PtrNull
    /\ m_color_root = ColorNull
    /\ history = <<>>
    /\ last_trace = <<>>
    /\ produced = {}
    /\ fresh_fill \in UninitWords

\* The pool the edit starts from.
LivePool ==
    [pages |-> m_pages, ranges |-> m_page_write_ranges, written |-> written,
     used |-> m_bucket_words, ok |-> TRUE]

InstallPool(P) ==
    /\ m_pages' = P.pages
    /\ m_page_write_ranges' = P.ranges
    /\ written' = P.written
    /\ m_bucket_words' = P.used

\* set_root(edit(editor)) with the pool's roots at `root` and `color`: ThreadedEdit
\* from them, then SetRoot of the result, and of its color root when it has one. An
\* edit that ran out of bucket space installs nothing.
EditFrom(ed, root, color) ==
    \E r \in {ThreadedEdit(LivePool, fresh_fill, ed, root, color)} :
        /\ InstallPool(r.pool)
        /\ m_root' = IF r.pool.ok THEN r.ptr ELSE root
        /\ m_color_root' = IF r.pool.ok /\ IsVBR(ed) THEN r.color ELSE color
        /\ history' = Append(history, [kind |-> ed.kind, ed |-> ed, ok |-> r.pool.ok,
                                       before |-> root, after |-> r.ptr])
        /\ last_trace' = r.trace
        /\ produced' = IF r.pool.ok
                       THEN produced \cup {<<0, r.ptr>>}
                                \cup { <<r.trace[i].level, r.trace[i].after>> : i \in 1 .. Len(r.trace) }
                       ELSE produced

\* set_root(vbr_edit(editor)) or set_root(stateless_edit(editor)) from GetRoot().
Edit ==
    /\ UNCHANGED notEdit
    /\ Len(history) < MaxOps
    /\ \E ed \in Editors : EditFrom(ed, m_root, m_color_root)
    /\ UNCHANGED <<m_page_frees, backend, last_ops, fresh_fill>>

\* The pages ThreadedGC frees: allocated before, and not in the shadow pool.
GCFrees(shadow_pages) ==
    { p \in PageIds : m_pages[p] # NoPage /\ shadow_pages[p] = NoPage }

\* The GC button: set_root(gc()), then flush(). The shadow pool's pages replace the
\* live ones, every page that was allocated and is not in the shadow is freed, and
\* the flush hands the written ranges and the frees to the backend.
GC ==
    /\ UNCHANGED notEdit
    /\ Len(history) < MaxOps
    /\ \E r \in {gc(fresh_fill, m_pages, m_root)} :
        /\ m_pages' = r.pool.pages
        /\ written' = r.pool.written
        /\ m_bucket_words' = r.pool.used
        /\ last_ops' = FlushOps(r.pool.pages, r.pool.ranges, m_page_frees \cup GCFrees(r.pool.pages))
        /\ backend' = ApplyOps(backend, last_ops')
        /\ m_page_write_ranges' = [p \in PageIds |-> NoRange]
        /\ m_page_frees' = {}
        /\ m_root' = r.node_ptr
        /\ m_color_root' = IF r.opt_color_ptr # <<"nullopt">> THEN r.opt_color_ptr ELSE m_color_root
        /\ history' = Append(history, [kind |-> "gc", ed |-> <<>>, ok |-> TRUE,
                                       before |-> m_root, after |-> r.node_ptr])
    /\ last_trace' = <<>>
    /\ produced' = {}
    /\ UNCHANGED fresh_fill

\* flush() between two operations.
EditFlush ==
    /\ \E p \in PageIds : m_page_write_ranges[p] # NoRange \/ p \in m_page_frees
    /\ Flush

NextEdit == Edit \/ GC \/ EditFlush

(***************************************************************************)
(* SpecOrder: two worlds built in one pool from two disjoint boxes of one   *)
(* color, the first by filling A then B, the second, from the empty root,  *)
(* by filling B then A.                                                    *)
(***************************************************************************)
OrderColor == 1
OrderIntervals == {<<0, 2>>, <<2, 4>>, <<0, 4>>, <<1, 3>>}
OrderBoxes ==
    { [kind |-> "aabb", aabb_min |-> <<x[1], y[1], z[1]>>, aabb_max |-> <<x[2], y[2], z[2]>>,
       color |-> OrderColor] : x \in OrderIntervals, y \in OrderIntervals, z \in OrderIntervals }

Disjoint(A, B) ==
    \E a \in Axes : A.aabb_max[a] <= B.aabb_min[a] \/ B.aabb_max[a] <= A.aabb_min[a]

\* The first world: fill A, then a box B disjoint from A; the second world: after B,
\* fill A.
WorldFill ==
    /\ UNCHANGED notEdit
    /\ Len(history) \in {0, 1, 3}
    /\ \E ed \in OrderBoxes :
        /\ Len(history) = 1 => Disjoint(history[1].ed, ed)
        /\ Len(history) = 3 => ed = history[1].ed
        /\ EditFrom(ed, m_root, m_color_root)
    /\ UNCHANGED <<m_page_frees, backend, last_ops, fresh_fill>>

\* The second world starts: SetRoot(Null) on both pools, then fill B.
OtherWorldFill ==
    /\ UNCHANGED notEdit
    /\ Len(history) = 2
    /\ EditFrom(history[2].ed, PtrNull, ColorNull)
    /\ UNCHANGED <<m_page_frees, backend, last_ops, fresh_fill>>

NextOrder == WorldFill \/ OtherWorldFill

(***************************************************************************)
(* SpecVBR: a VBR chunk written one voxel color at a time and read back.    *)
(* A chunk is its macro-blocks, its block headers and its weight bits; a    *)
(* color is a number, the blend of two endpoints their weighted mean.       *)
(***************************************************************************)
MacroBits == 2
MaxColor == 3

MacroVoxels == Pow2(MacroBits)
ChunkVoxels == VoxelsPerLeaf
VBRColors == 1 .. MaxColor

WeightMax(wb) == Pow2(wb) - 1

\* Endpoints A and B blended by weight w of wb bits; a block of 0 bits is solid A.
Interpolate(A, B, w, wb) ==
    IF wb = 0 THEN A ELSE ((A * (WeightMax(wb) - w)) + (B * w)) \div WeightMax(wb)

\* The weights of the block's width that represent color c exactly.
Weights(header, c) ==
    { w \in 0 .. WeightMax(header.wb) :
        header.wb > 0 /\ Interpolate(header.A, header.B, w, header.wb) = c }

\* A weight as wb bits, lowest first.
WeightBits(w, wb) == [k \in 1 .. wb |-> (w \div Pow2(k - 1)) % 2]

EmptyWriter ==
    [macro_blocks |-> <<>>, block_headers |-> <<>>, weight_bits |-> <<>>,
     colors |-> <<>>, read |-> <<>>]

\* The writer appends color c: a color equal to A extends a block of 0 bits, a color
\* the block's weights represent appends its weight, any other color closes the block
\* and opens one with endpoints (prev, c) and one bit. Every 2^M voxels a MacroBlock
\* is pushed that points at the block the voxel lands in and at its weight bits.
Push(w, c) ==
    LET hs == w.block_headers
        last == Len(hs)
        out == IF hs = <<>>
               THEN [hs |-> <<[A |-> c, B |-> c, len |-> 1, wb |-> 0]>>, bits |-> <<>>]
               ELSE IF hs[last].wb = 0 /\ hs[last].A = c
               THEN [hs |-> [hs EXCEPT ![last].len = @ + 1], bits |-> <<>>]
               ELSE IF Weights(hs[last], c) # {}
               THEN [hs |-> [hs EXCEPT ![last].len = @ + 1],
                     bits |-> WeightBits(CHOOSE x \in Weights(hs[last], c) :
                                            \A y \in Weights(hs[last], c) : x <= y,
                                         hs[last].wb)]
               ELSE [hs |-> Append(hs, [A |-> w.colors[Len(w.colors)], B |-> c, len |-> 1, wb |-> 1]),
                     bits |-> WeightBits(1, 1)]
    IN  [macro_blocks |-> IF Len(w.colors) % MacroVoxels = 0
                          THEN Append(w.macro_blocks,
                                      [block |-> Len(out.hs), bit |-> Len(w.weight_bits)])
                          ELSE w.macro_blocks,
         block_headers |-> out.hs,
         weight_bits |-> w.weight_bits \o out.bits,
         colors |-> Append(w.colors, c),
         read |-> <<>>]

\* The reader's scan: from block k on, the block in which the cumulative length first
\* exceeds `left`, the voxels before it and the weight bits of the blocks scanned over.
RECURSIVE ScanBlocks(_, _, _, _)
ScanBlocks(hs, k, left, bits) ==
    IF k >= Len(hs) \/ left < hs[k].len
    THEN [block |-> k, offset |-> left, bits |-> bits]
    ELSE ScanBlocks(hs, k + 1, left - hs[k].len, bits + (hs[k].len * hs[k].wb))

\* A bit of the weight stream; past its end the buffer holds whatever it held.
BitAt(bits, pos, fill) == IF pos <= Len(bits) THEN bits[pos] ELSE fill

RECURSIVE ReadWeight(_, _, _, _)
ReadWeight(bits, pos, wb, fill) ==
    IF wb = 0 THEN 0
    ELSE BitAt(bits, pos, fill) + (2 * ReadWeight(bits, pos + 1, wb - 1, fill))

\* The reader at voxel index i: the macro-block of i gives the first block and the bit
\* offset, the scan the block of i, the weight is read and the endpoints are blended.
\* The reader's position for voxel index i: from the macro-block of i, the block the
\* scan stops in and the offset of the voxel's weight in the weight stream.
Locate(w, i) ==
    LET macro == w.macro_blocks[(i \div MacroVoxels) + 1]
        at == ScanBlocks(w.block_headers, macro.block, i % MacroVoxels, 0)
    IN  [block |-> at.block,
         bit |-> macro.bit + at.bits + (at.offset * w.block_headers[at.block].wb)]

Decode(w, i, fill) ==
    LET at == Locate(w, i)
        header == w.block_headers[at.block]
        weight == ReadWeight(w.weight_bits, at.bit + 1, header.wb, fill)
    IN  Interpolate(header.A, header.B, weight, header.wb)

VBRInit == vbr = EmptyWriter

\* The writer appends the color of the next voxel of the chunk.
VBRPush ==
    /\ UNCHANGED notVBR
    /\ Len(vbr.colors) < ChunkVoxels
    /\ \E c \in VBRColors : vbr' = Push(vbr, c)

\* The finished chunk is read at a voxel index.
VBRRead ==
    /\ UNCHANGED notVBR
    /\ Len(vbr.colors) = ChunkVoxels
    /\ \E i \in 0 .. (ChunkVoxels - 1), fill \in {0, 1} :
        vbr' = [vbr EXCEPT !.read = <<[i |-> i, color |-> Decode(vbr, i, fill),
                                       block |-> Locate(vbr, i).block,
                                       bit |-> Locate(vbr, i).bit]>>]

NextVBR == VBRPush \/ VBRRead

(***************************************************************************)
(* SpecFork: a world built by earlier edits, then one edit followed task by  *)
(* task. Below the level threshold T the eight recursive calls of a node    *)
(* are tasks of the pool, run in any order and joined before the node is    *)
(* built; from T on the loop of edit_inner_node runs them in order. The     *)
(* world has the root above the leaves, so T is 0 (nothing spawned) or 1.   *)
(***************************************************************************)
MaxSetups == 1

Thresholds == 0 .. LeafLevel

\* The editors tried: a box that cuts four leaves, a sphere painted over it, a dig.
ForkEditors ==
    { [kind |-> "aabb", aabb_min |-> <<1, 1, 0>>, aabb_max |-> <<3, 3, 2>>, color |-> 1],
      [kind |-> "sphere_paint", center |-> <<0, 0, 1>>, r2 |-> 9, color |-> 3],
      [kind |-> "sphere_dig", center |-> <<2, 2, 0>>, r2 |-> 1, color |-> NoColor] }

NotJoined == <<>>

IdleFork ==
    [pc |-> "idle", ed |-> <<>>, T |-> 0, root |-> PtrNull, color |-> ColorNull,
     base |-> <<>>, done |-> [i \in 1 .. 8 |-> NotJoined], ok |-> TRUE, n |-> 0]

ForkInit == fork = IdleFork

\* One pass of the loop that never sets `changed`.
edit_child_NeverChanged(P, fill, ed, coord, children, color_ptr, i) ==
    LET child_coord == GetChildCoord(coord, i - 1)
        child == children[i]
        color_child == GetColorChild(color_ptr, i)
        d == EditNode(ed, child_coord, child, GetFill(color_child))
    IN  Only({ [pool |-> r.pool,
                ptr |-> NewChild(d.type, child, r.ptr),
                color |-> IF ~IsVBR(ed) THEN color_child
                          ELSE IF NewChild(d.type, child, r.ptr) = PtrNull THEN ColorNull
                          ELSE NewColorChild(d.type, d.color, color_child, r.color),
                changed |-> FALSE] :
               r \in { IF d.type = "kProceed"
                       THEN edit_node(P, fill, ed, child_coord, child, color_child)
                       ELSE [pool |-> P, ptr |-> child, color |-> color_child, trace |-> <<>>] } })

\* One pass of the loop of edit_inner_node, for child i alone: the editor's decision
\* for the child, the recursion on kProceed, the new child, its color and `changed`.
edit_child(P, fill, ed, coord, children, color_ptr, i) ==
    LET child_coord == GetChildCoord(coord, i - 1)
        child == children[i]
        color_child == GetColorChild(color_ptr, i)
        d == EditNode(ed, child_coord, child, GetFill(color_child))
    IN  Only({ [pool |-> r.pool,
                ptr |-> NewChild(d.type, child, r.ptr),
                color |-> IF ~IsVBR(ed) THEN color_child
                          ELSE IF NewChild(d.type, child, r.ptr) = PtrNull THEN ColorNull
                          ELSE NewColorChild(d.type, d.color, color_child, r.color),
                changed |-> d.type \in {"kClear", "kFill"}
                              \/ (d.type = "kProceed" /\ NewChild(d.type, child, r.ptr) # child)] :
               r \in { IF d.type = "kProceed"
                       THEN edit_node(P, fill, ed, child_coord, child, color_child)
                       ELSE [pool |-> P, ptr |-> child, color |-> color_child, trace |-> <<>>] } })

\* The end of edit_inner_node once the eight results are in: the node as it was when
\* no child changed, else the packed children upserted.
join_children(P, fill, ed, coord, node, color_ptr, done) ==
    LET changed == \E i \in 1 .. 8 : done[i][1].changed
        children == [i \in 1 .. 8 |-> done[i][1].ptr]
        colors == [i \in 1 .. 8 |-> done[i][1].color]
    IN  Only({ [pool |-> up.pool, ptr |-> up.ptr,
                color |-> IF ~IsVBR(ed) THEN color_ptr
                          ELSE IF up.ptr = PtrNull THEN ColorNull ELSE ColorNode(colors)] :
               up \in { IF ~changed THEN [pool |-> P, ptr |-> node]
                        ELSE upsert_inner_node(P, fill, coord.level, children) } })

\* An earlier edit, from its call to set_root.
ForkSetup ==
    /\ UNCHANGED notFork
    /\ fork.pc = "idle"
    /\ fork.n < MaxSetups
    /\ \E ed \in ForkEditors :
        \E r \in {ThreadedEdit(LivePool, fresh_fill, ed, m_root, m_color_root)} :
            /\ InstallPool(r.pool)
            /\ m_root' = IF r.pool.ok THEN r.ptr ELSE m_root
            /\ m_color_root' = IF r.pool.ok /\ IsVBR(ed) THEN r.color ELSE m_color_root
    /\ fork' = [fork EXCEPT !.n = fork.n + 1]

\* ThreadedEdit is called with a pure editor and a threshold. The editor decides for
\* the root; on kProceed the eight recursive calls are due, else the edit is over.
ForkBegin ==
    /\ UNCHANGED notFork
    /\ fork.pc = "idle"
    /\ \E ed \in ForkEditors, T \in Thresholds :
        LET d == EditNode(ed, RootCoord, m_root, GetFill(m_color_root))
            begun == [pc |-> "spawned", ed |-> <<ed>>, T |-> T, root |-> m_root,
                      color |-> m_color_root, base |-> <<LivePool>>,
                      done |-> [i \in 1 .. 8 |-> NotJoined], ok |-> TRUE, n |-> fork.n]
        IN  IF d.type = "kProceed"
            THEN /\ fork' = begun
                 /\ UNCHANGED <<m_pages, m_page_write_ranges, written, m_bucket_words,
                                m_root, m_color_root>>
            ELSE \E r \in {ThreadedEdit(LivePool, fresh_fill, ed, m_root, m_color_root)} :
                    /\ fork' = [begun EXCEPT !.pc = "joined", !.ok = r.pool.ok]
                    /\ InstallPool(r.pool)
                    /\ m_root' = IF r.pool.ok THEN r.ptr ELSE m_root
                    /\ m_color_root' = IF r.pool.ok /\ IsVBR(ed) THEN r.color ELSE m_color_root

\* The recursive call for octant i runs to its end: as a task of the pool at any
\* time when it is spawned, in the order of the loop when it is not.
ForkChild(i) ==
    /\ UNCHANGED notFork
    /\ fork.pc = "spawned"
    /\ fork.done[i] = NotJoined
    /\ RootCoord.level >= fork.T => \A j \in 1 .. (i - 1) : fork.done[j] # NotJoined
    /\ \E r \in {edit_child(LivePool, fresh_fill, fork.ed[1], RootCoord,
                              get_unpacked_node_array(m_pages, fork.root), fork.color, i)} :
        /\ InstallPool(r.pool)
        /\ fork' = [fork EXCEPT !.done[i] = <<[ptr |-> r.ptr, color |-> r.color, changed |-> r.changed]>>,
                                !.ok = fork.ok /\ r.pool.ok]
    /\ UNCHANGED <<m_root, m_color_root>>

\* The eight results are joined.
AllJoined(done) == \A i \in 1 .. 8 : done[i] # NotJoined

\* The parent joins its eight children and builds its node; set_root installs the
\* result of the edit.
ForkJoin ==
    /\ UNCHANGED notFork
    /\ fork.pc = "spawned"
    /\ AllJoined(fork.done)
    /\ \E r \in {join_children(LivePool, fresh_fill, fork.ed[1], RootCoord, fork.root,
                                  fork.color, fork.done)} :
        /\ InstallPool(r.pool)
        /\ fork' = [fork EXCEPT !.pc = "joined", !.ok = fork.ok /\ r.pool.ok]
        /\ m_root' = IF fork.ok /\ r.pool.ok THEN r.ptr ELSE fork.root
        /\ m_color_root' = IF fork.ok /\ r.pool.ok /\ IsVBR(fork.ed[1]) THEN r.color ELSE fork.color

NextFork == ForkSetup \/ ForkBegin \/ (\E i \in 1 .. 8 : ForkChild(i)) \/ ForkJoin

(***************************************************************************)
(* SpecLeaf: the leaves of the DAGColorPool. SetLeaf calls, one after the   *)
(* other, on the SafePagedVector m_leaves.                                 *)
(***************************************************************************)
WordBitsPerLeafPage == 2
LeafTotalPages == 3
MaxSetLeafs == 3

LeafPageSize == Pow2(WordBitsPerLeafPage)
LeafTotalWords == LeafTotalPages * LeafPageSize
LeafIndexes == 0 .. (LeafTotalWords - 1)

\* std::nullopt
NoIndex == -1

\* The chunks tried, as the words write_leaf_chunk stores: of one, three and four
\* words, told apart by their content.
LeafChunks == { <<7>>, <<8, 8, 8>>, <<9, 9, 9, 9>> }

\* Pointer{Pointer::Tag::kLeaf, idx}
LeafPointer(idx) == <<"Leaf", idx>>

\* The words a chunk takes in its slot: the size word in front, then its words.
calculate_chunk_size(chunk) == Len(chunk) + 1

\* SafePagedVector::Append's two checks: no page left, or fewer than required.
AppendFails(used_pages, count) ==
    LET required_pages == (count + LeafPageSize - 1) \div LeafPageSize
    IN  used_pages >= LeafTotalPages \/ used_pages + required_pages > LeafTotalPages

\* allocate_pages: the next pages of the vector; the index of their first word.
allocate_pages(used_pages, count) ==
    [idx |-> used_pages * LeafPageSize,
     used_pages |-> used_pages + ((count + LeafPageSize - 1) \div LeafPageSize)]

\* SafePagedVector::Append(count, initializer) with SetLeaf's initializer, which
\* writes nothing.
PagedAppend(used_pages, count) ==
    IF AppendFails(used_pages, count) THEN [idx |-> NoIndex, used_pages |-> used_pages]
    ELSE allocate_pages(used_pages, count)

\* write_leaf_chunk(idx, chunk): the words of the chunk from idx on. A word past
\* the end of the vector is not a word of the model.
write_leaf_chunk(words, idx, chunk) ==
    [i \in LeafIndexes |-> IF i >= idx /\ i < idx + Len(chunk) THEN chunk[i - idx + 1] ELSE words[i]]

\* SetLeaf that takes the reuse path whatever keep_history is.
SetLeaf_NoHistory(keep, words, used_pages, ptr, chunk) ==
    LET data_size == calculate_chunk_size(chunk)
        append_size == IF data_size % 2 = 1 THEN data_size + 1 ELSE data_size
        is_leaf == ptr[1] = "Leaf"
        existing_size == IF is_leaf THEN words[ptr[2]] ELSE 0
        count == IF is_leaf THEN Max(existing_size * 2, append_size) ELSE append_size
        app == PagedAppend(used_pages, count)
    IN  IF is_leaf /\ data_size <= existing_size
        THEN [words |-> write_leaf_chunk(words, ptr[2] + 1, chunk), used_pages |-> used_pages,
              ptr |-> ptr, path |-> "reuse", count |-> 0]
        ELSE IF app.idx = NoIndex
        THEN [words |-> words, used_pages |-> used_pages, ptr |-> ptr, path |-> "failed", count |-> count]
        ELSE [words |-> write_leaf_chunk(words, app.idx + 1, chunk), used_pages |-> app.used_pages,
              ptr |-> LeafPointer(app.idx), path |-> "append", count |-> count]

\* SetLeaf that writes the chunk at the end of the vector before it looks at what
\* Append returned.
SetLeaf_WriteFirst(keep, words, used_pages, ptr, chunk) ==
    LET data_size == calculate_chunk_size(chunk)
        append_size == IF data_size % 2 = 1 THEN data_size + 1 ELSE data_size
        try_reuse == ~keep /\ ptr[1] = "Leaf"
        existing_size == IF try_reuse THEN words[ptr[2]] ELSE 0
        count == IF try_reuse THEN Max(existing_size * 2, append_size) ELSE append_size
        app == PagedAppend(used_pages, count)
    IN  IF try_reuse /\ data_size <= existing_size
        THEN [words |-> write_leaf_chunk(words, ptr[2] + 1, chunk), used_pages |-> used_pages,
              ptr |-> ptr, path |-> "reuse", count |-> 0]
        ELSE IF app.idx = NoIndex
        THEN [words |-> write_leaf_chunk(words, (used_pages * LeafPageSize) + 1, chunk),
              used_pages |-> used_pages, ptr |-> ptr, path |-> "failed", count |-> count]
        ELSE [words |-> write_leaf_chunk(words, app.idx + 1, chunk), used_pages |-> app.used_pages,
              ptr |-> LeafPointer(app.idx), path |-> "append", count |-> count]

\* DAGColorPool::SetLeaf(ptr, chunk) on the leaf words and the used pages: what they
\* are after the call, the pointer returned, the path taken and the words asked of
\* Append. The size word of a slot is read and never written.
SetLeaf(keep, words, used_pages, ptr, chunk) ==
    LET data_size == calculate_chunk_size(chunk)
        append_size == IF data_size % 2 = 1 THEN data_size + 1 ELSE data_size
        try_reuse == ~keep /\ ptr[1] = "Leaf"
        existing_size == IF try_reuse THEN words[ptr[2]] ELSE 0
        count == IF try_reuse THEN Max(existing_size * 2, append_size) ELSE append_size
        app == PagedAppend(used_pages, count)
    IN  IF try_reuse /\ data_size <= existing_size
        THEN [words |-> write_leaf_chunk(words, ptr[2] + 1, chunk), used_pages |-> used_pages,
              ptr |-> ptr, path |-> "reuse", count |-> 0]
        ELSE IF app.idx = NoIndex
        THEN [words |-> words, used_pages |-> used_pages, ptr |-> ptr, path |-> "failed", count |-> count]
        ELSE [words |-> write_leaf_chunk(words, app.idx + 1, chunk), used_pages |-> app.used_pages,
              ptr |-> LeafPointer(app.idx), path |-> "append", count |-> count]

IdleAppend == [pc |-> "idle", count |-> 0]

\* Before DAGColorPool::Create. The pages of m_leaves hold what their allocation
\* left in them.
LeafInit ==
    /\ keep_history = <<>>
    /\ m_leaves = [i \in LeafIndexes |-> fresh_fill]
    /\ m_used_pages = 0
    /\ leaf_log = <<>>
    /\ append_task = [t \in Tasks |-> IdleAppend]
    /\ append_log = <<>>

\* DAGColorPool::Create(config, queues)
LeafCreate ==
    /\ UNCHANGED notLeaf
    /\ keep_history = <<>>
    /\ \E keep \in BOOLEAN : keep_history' = <<keep>>
    /\ UNCHANGED <<m_leaves, m_used_pages, leaf_log, append_task, append_log>>

\* The pointers a caller can hold: Null, a solid color, or what SetLeaf returned.
HeldPointers ==
    {ColorNull, SolidColor(1)} \cup { leaf_log[i].ptr : i \in 1 .. Len(leaf_log) }

\* One SetLeaf call.
DoSetLeaf ==
    /\ UNCHANGED notLeaf
    /\ keep_history # <<>>
    /\ Len(leaf_log) < MaxSetLeafs
    /\ \E ptr \in HeldPointers, chunk \in LeafChunks :
        \E r \in {SetLeaf(keep_history[1], m_leaves, m_used_pages, ptr, chunk)} :
            /\ m_leaves' = r.words
            /\ m_used_pages' = r.used_pages
            /\ leaf_log' = Append(leaf_log, [given |-> ptr, chunk |-> chunk, ptr |-> r.ptr,
                                              path |-> r.path, count |-> r.count])
    /\ UNCHANGED <<keep_history, append_task, append_log>>

NextLeaf == LeafCreate \/ DoSetLeaf

(***************************************************************************)
(* SpecAppend: SafePagedVector::Append called by the tasks of an edit.     *)
(* Append compares m_used_pages with m_total_pages and then calls          *)
(* allocate_pages; the comparison is made outside allocate_pages, whose    *)
(* reservation of the pages is one step.                                   *)
(***************************************************************************)
MaxAppends == 4

\* The word counts the tasks ask for: one page, one word more than a page.
AppendCounts == {1, LeafPageSize, LeafPageSize + 1}

AppendsStarted ==
    Len(append_log) + Cardinality({t \in Tasks : append_task[t].pc # "idle"})

\* A task calls Append(count, initializer).
AppendCall(t, count) ==
    /\ UNCHANGED notLeaf
    /\ append_task[t].pc = "idle"
    /\ AppendsStarted < MaxAppends
    /\ append_task' = [append_task EXCEPT ![t] = [pc |-> "check", count |-> count]]
    /\ UNCHANGED <<keep_history, m_leaves, m_used_pages, leaf_log, append_log>>

\* The two comparisons of m_used_pages with m_total_pages: nullopt when the pages
\* asked for do not fit. m_used_pages only grows and at least one page is asked for,
\* so the second comparison decides.
AppendCheck(t) ==
    /\ UNCHANGED notLeaf
    /\ append_task[t].pc = "check"
    /\ IF AppendFails(m_used_pages, append_task[t].count)
       THEN /\ append_task' = [append_task EXCEPT ![t] = IdleAppend]
            /\ append_log' = Append(append_log,
                    [task |-> t, count |-> append_task[t].count, idx |-> NoIndex,
                     before |-> m_used_pages, after |-> m_used_pages])
       ELSE /\ append_task' = [append_task EXCEPT ![t].pc = "allocate"]
            /\ UNCHANGED append_log
    /\ UNCHANGED <<keep_history, m_leaves, m_used_pages, leaf_log>>

\* return allocate_pages(required_pages, initializer); the initializer SetLeaf passes
\* writes nothing.
AppendAllocate(t) ==
    /\ UNCHANGED notLeaf
    /\ append_task[t].pc = "allocate"
    /\ \E r \in {allocate_pages(m_used_pages, append_task[t].count)} :
        /\ m_used_pages' = r.used_pages
        /\ append_log' = Append(append_log,
                [task |-> t, count |-> append_task[t].count, idx |-> r.idx,
                 before |-> m_used_pages, after |-> r.used_pages])
    /\ append_task' = [append_task EXCEPT ![t] = IdleAppend]
    /\ UNCHANGED <<keep_history, m_leaves, leaf_log>>

NextAppend ==
    \/ \E t \in Tasks, count \in AppendCounts : AppendCall(t, count)
    \/ \E t \in Tasks : AppendCheck(t)
    \/ \E t \in Tasks : AppendAllocate(t)

(***************************************************************************)
(* Specifications                                                          *)
(***************************************************************************)
\* The state after construction of the pools and of main()'s globals.
Init == StoreInit /\ MainInit /\ PoolInit /\ EditInit /\ LeafInit /\ ForkInit /\ VBRInit

SpecStore == Init /\ [][NextStore]_vars

SpecMain == Init /\ [][NextMain]_vars

\* main() with a loop that keeps iterating and a worker thread that keeps running.
SpecMainLoop == Init /\ [][NextMain]_vars /\ WF_vars(MainStep) /\ WF_vars(WorkerStep)

SpecPool == Init /\ [][NextPool]_vars

\* The pool's worker threads keep running every task that can take a step.
SpecLock == Init /\ [][NextLock]_vars /\ \A t \in Tasks : WF_vars(TaskStep(t))

SpecEdit == Init /\ [][NextEdit]_vars

SpecOrder == Init /\ [][NextOrder]_vars

SpecLeaf == Init /\ [][NextLeaf]_vars

SpecAppend == Init /\ [][NextAppend]_vars

SpecFlush == Init /\ [][NextFlush]_vars

SpecFork == Init /\ [][NextFork]_vars

SpecVBR == Init /\ [][NextVBR]_vars

(***************************************************************************)
(* Claims                                                                  *)
(***************************************************************************)
\* The word stored at word `offset` of a bucket.
BucketWord(bucket, offset) ==
    m_pages[bucket * PagesPerBucket + (offset \div WordsPerPage)][(offset % WordsPerPage) + 1]

\* Every word of an appended node is in the pages, where the append put it.
NodeStored(a) ==
    \A i \in 1 .. Len(a.words) :
        /\ m_pages[a.bucket * PagesPerBucket + ((a.offset + i - 1) \div WordsPerPage)] # NoPage
        /\ BucketWord(a.bucket, a.offset + i - 1) = a.words[i]

\* The appended nodes that lie in the first u words of their bucket.
NodesBelow(bucket, u) ==
    { a \in appended : a.bucket = bucket /\ a.offset + Len(a.words) <= u }

Straddles(a) ==
    (a.offset \div WordsPerPage) # ((a.offset + Len(a.words) - 1) \div WordsPerPage)

\* C1: no bucket holds the same node words at two distinct addresses, and two
\* successful upserts of word-for-word equal content at one level return the same
\* address.
C1_HashConsingUnique ==
    /\ \A a1, a2 \in appended :
        (/\ a1.bucket = a2.bucket
         /\ a1.words = a2.words
         /\ a1 \in NodesBelow(a1.bucket, m_bucket_words[a1.bucket])
         /\ a2 \in NodesBelow(a2.bucket, m_bucket_words[a2.bucket])) => a1.offset = a2.offset
    /\ \A r1, r2 \in returned :
        (r1.ok /\ r2.ok /\ r1.level = r2.level /\ r1.words = r2.words) => r1.ptr = r2.ptr

\* C36: a node whose words straddle a page boundary of its bucket is stored once: no
\* upsert of the same words has appended a second copy behind it, and every
\* successful upsert of its words at its level has returned its address.
C36_StraddlingNodeDeduplicated ==
    \A a \in appended :
        (Straddles(a) /\ a \in NodesBelow(a.bucket, m_bucket_words[a.bucket])) =>
            /\ ~ \E b \in appended :
                    b.bucket = a.bucket /\ b.words = a.words /\ b.offset > a.offset
            /\ \A r \in returned :
                    (r.ok /\ r.words = a.words /\ calculate_bucket(r.level, r.words) = a.bucket) =>
                        r.ptr = (a.bucket * WordsPerBucket) + a.offset

\* has no copy of its node in the suffix from the used words of its unlocked scan to
\* the current used words: had a concurrent task appended the node there, the locked
\* scan would have found it and the task would return that address.
C2_OneOfTwoAppends ==
    \A t \in Tasks :
        task[t].pc \in {"write", "publish"} =>
            ~ \E a \in appended :
                /\ a.bucket = task[t].bucket
                /\ a.words = task[t].node
                /\ a.offset >= task[t].shared
                /\ a.offset + Len(a.words) <= task[t].used

\* C3: every appended node that lies below a used-words value a reader can hold (the
\* published value, or the value a task acquire-loaded for its unlocked scan) has all
\* its words in the pages, also when the node crosses a page boundary.
C3_PublishedNodesComplete ==
    /\ \A b \in Buckets : \A a \in NodesBelow(b, m_bucket_words[b]) : NodeStored(a)
    /\ \A t \in Tasks :
        task[t].pc = "scan" =>
            \A a \in NodesBelow(task[t].bucket, task[t].shared) : NodeStored(a)

\* No node is stored twice in the published words of a bucket.
NoNodeTwice ==
    \A b \in Buckets : \A a1, a2 \in NodesBelow(b, m_bucket_words[b]) :
        a1.words = a2.words => a1.offset = a2.offset

\* The OutOfBuckets result of task t's upsert.
OutOfBuckets(t) ==
    [level |-> task[t].level, words |-> task[t].node, ptr |-> PtrNull, ok |-> FALSE]

\* C20: when a task holds the lock, its node is not in the bucket and does not fit in
\* what is left of the bucket, the upsert ends right there with OutOfBuckets: the task
\* is done with it (no second attempt, no append), and the used words of every
\* bucket, every stored word, the dirty ranges and the appends are as they were, so
\* that no node is stored twice after the step if none was before. No upsert fails
\* with OutOfBuckets while its node fits.
C20_OutOfBucketsLeavesPool ==
    [][\A t \in Tasks :
        (task[t].pc = "locked" /\ task'[t].pc # "locked") =>
            /\ (/\ ~ \E a \in NodesBelow(task[t].bucket, m_bucket_words[task[t].bucket]) :
                        a.words = task[t].node
                /\ m_bucket_words[task[t].bucket] + Len(task[t].node) > WordsPerBucket) =>
                    /\ OutOfBuckets(t) \in returned'
                    /\ task'[t] = IdleUpsert
                    /\ m_edit_mutexes'[GetBucketRefMutex(task[t].bucket)] = NoOwner
                    /\ m_bucket_words' = m_bucket_words
                    /\ m_pages' = m_pages
                    /\ m_page_write_ranges' = m_page_write_ranges
                    /\ appended' = appended
                    /\ NoNodeTwice => NoNodeTwice'
            /\ OutOfBuckets(t) \in returned' \ returned =>
                    m_bucket_words[task[t].bucket] + Len(task[t].node) > WordsPerBucket]_vars

\* An upsert has failed with OutOfBuckets on a bucket that holds nodes, one of them
\* across a page boundary, and its node still does not fit; every node below the
\* used words is stored word for word.
C20_UpsertFailedOnFullBucket ==
    \E r \in returned :
        /\ ~r.ok
        /\ \E b \in Buckets :
            /\ b = calculate_bucket(r.level, r.words)
            /\ m_bucket_words[b] > 0
            /\ m_bucket_words[b] + Len(r.words) > WordsPerBucket
            /\ \E a \in NodesBelow(b, m_bucket_words[b]) : Straddles(a)
            /\ \A a \in NodesBelow(b, m_bucket_words[b]) : NodeStored(a)
            /\ ~ \E a \in NodesBelow(b, m_bucket_words[b]) : a.words = r.words

\* C25: with no GC running, a step of the NodePool lowers the used words of no
\* bucket and changes no word below the used words of its bucket, and every address
\* an upsert has returned reads the words of the node it was returned for.
C25_PoolAppendOnly ==
    [][/\ \A b \in Buckets :
            /\ m_bucket_words'[b] >= m_bucket_words[b]
            /\ \A o \in 0 .. (m_bucket_words[b] - 1) : BucketWord(b, o)' = BucketWord(b, o)
       /\ \A r \in returned' :
            r.ok => \A i \in 1 .. Len(r.words) : PoolWord(m_pages', r.ptr + i - 1) = r.words[i]]_vars

\* A bucket holds two nodes appended by different tasks, the second in the page the
\* first one ends in, and an upsert returned the address of the first, whose words
\* are all in the pages.
C25_AppendedBehindReturnedNode ==
    \E a1, a2 \in appended :
        /\ a1.bucket = a2.bucket
        /\ a1.by # a2.by
        /\ a2.offset = a1.offset + Len(a1.words)
        /\ a2.offset % WordsPerPage # 0
        /\ a2 \in NodesBelow(a2.bucket, m_bucket_words[a2.bucket])
        /\ NodeStored(a1)
        /\ \E r \in returned :
            r.ok /\ r.words = a1.words /\ r.ptr = a1.bucket * WordsPerBucket + a1.offset

\* The mutexes a task holds.
HeldBy(t) == { m \in EditMutexes : m_edit_mutexes[m] = t }

C3_ReaderCoversStraddlingNode ==
    \E t \in Tasks :
        /\ task[t].pc = "scan"
        /\ \E a \in NodesBelow(task[t].bucket, task[t].shared) : Straddles(a) /\ a.by # t

\* Occupancy and color of voxel p read through the installed roots.
Occ(p) == Occupied(m_pages, m_root, 0, p)
Col(p) == ColorAt(m_color_root, 0, p)
World == [p \in Voxels |-> <<Occ(p), Col(p)>>]

LastOp == history[Len(history)]

\* The occupancy of the subtree a pointer of `level` denotes, voxel by voxel.
SubtreeOccupancy(level, ptr) ==
    IF level = LeafLevel THEN get_leaf_array(m_pages, ptr)
    ELSE [p \in Voxels |-> Occupied(m_pages, ptr, level, p)]

\* C4: no node reachable from the installed root is an inner node whose children are
\* all Null or all Filled, or a leaf whose bits are all 0 or all 1.
C4_StoredNodesNormalized ==
    m_root \notin {PtrNull, PtrFilled} =>
        LET children == get_unpacked_node_array(m_pages, m_root)
        IN  /\ \E i \in 1 .. 8 : children[i] # PtrNull
            /\ \E i \in 1 .. 8 : children[i] # PtrFilled
            /\ \A i \in 1 .. 8 :
                children[i] \notin {PtrNull, PtrFilled} =>
                    /\ \E v \in 1 .. VoxelsPerLeaf : get_leaf_array(m_pages, children[i])[v]
                    /\ \E v \in 1 .. VoxelsPerLeaf : ~get_leaf_array(m_pages, children[i])[v]

\* The latest edit went down into a leaf whose voxels all came out set, the child is
\* the Filled sentinel, and the root is a stored node.
C4_FullLeafBecameFilled ==
    /\ m_root \notin {PtrNull, PtrFilled}
    /\ \E i \in 1 .. Len(last_trace) :
        /\ last_trace[i].type = "kProceed"
        /\ last_trace[i].before # PtrFilled
        /\ last_trace[i].after = PtrFilled

\* C5: between two GCs, two pointers of one level that edits produced are equal if
\* and only if their subtrees have the same occupancy for every voxel.
C5_PointerEqualityIsOccupancyEquality ==
    \A x, y \in produced :
        x[1] = y[1] =>
            ((x[2] = y[2]) <=> (SubtreeOccupancy(x[1], x[2]) = SubtreeOccupancy(y[1], y[2])))

\* C6: in the latest edit, every child the editor left Unaffected kept its pointer,
\* every child it Cleared came out Null and every child it Filled came out Filled,
\* and none of these appended to the pool.
C6_DecisionsWithoutUpsert ==
    \A i \in 1 .. Len(last_trace) :
        LET step == last_trace[i]
        IN  /\ step.type = "kNotAffected" => step.after = step.before /\ ~step.upserted
            /\ step.type = "kClear" => step.after = PtrNull /\ ~step.upserted
            /\ step.type = "kFill" => step.after = PtrFilled /\ ~step.upserted

\* The latest edit decided Fill over a child that was Filled already and Unaffected
\* over another child.
C6_FillOverFilled ==
    /\ \E i \in 1 .. Len(last_trace) :
        last_trace[i].type = "kFill" /\ last_trace[i].before = PtrFilled
    /\ \E i \in 1 .. Len(last_trace) : last_trace[i].type = "kNotAffected"

InBox(p, ed) == \A a \in Axes : ed.aabb_min[a] <= p[a] /\ p[a] < ed.aabb_max[a]

C8_GCPreservesWorld ==
    [][(Len(history') > Len(history) /\ history'[Len(history')].kind = "gc") => World' = World]_vars

\* The latest operation is a GC that moved the root of a world with occupied voxels
\* to another address.
C8_GCMovedRoot ==
    /\ history # <<>>
    /\ LastOp.kind = "gc"
    /\ LastOp.before # LastOp.after
    /\ m_root \notin {PtrNull, PtrFilled}
    /\ \E p \in Voxels : Occ(p)

\* The step is an edit that applies the editor of the latest operation once more.
RepeatsLastEdit ==
    /\ history # <<>>
    /\ Len(history') = Len(history) + 1
    /\ LastOp.ok
    /\ history'[Len(history')].kind = LastOp.kind
    /\ history'[Len(history')].ed = LastOp.ed

\* C14: an AABB fill applied a second time right after the first returns the root
\* the first returned and makes no page dirty.
C14_RepeatedFillSameRoot ==
    [][(RepeatsLastEdit /\ LastOp.kind = "aabb") =>
            /\ history'[Len(history')].ok
            /\ m_root' = m_root
            /\ m_page_write_ranges' = m_page_write_ranges]_vars

\* C15: for two disjoint boxes A and B of one color, the world built by filling A
\* then B and the world built by filling B then A have the same root pointer. Every
\* node of the second world is in the pool once A, B and then B alone are filled,
\* so its last fill needs no room in any bucket.
C15_FillOrderSameRoot ==
    (Len(history) = 4 /\ history[1].ok /\ history[2].ok /\ history[3].ok) =>
        /\ history[4].ok
        /\ history[4].after = history[2].after

\* The box of the editor covers the whole world.
CoversWorld(ed) ==
    \A a \in Axes : ed.aabb_min[a] = 0 /\ ed.aabb_max[a] = Resolution

\* C16: after an AABB fill of the whole empty world with one color the geometry root
\* is Filled, the color root is SolidColor of that color, and neither pool holds a
\* node: no bucket has a used word and the color root is no Node and no VBRLeaf.
C16_WholeWorldFill ==
    (Len(history) = 1 /\ history[1].kind = "aabb" /\ CoversWorld(history[1].ed)) =>
        /\ m_root = PtrFilled
        /\ m_color_root = SolidColor(history[1].ed.color)
        /\ \A b \in Buckets : m_bucket_words[b] = 0

\* The one edit so far is an AABB fill of the whole world: the editor decided Fill
\* for the root, and every voxel reads occupied with the color of the fill.
C16_WorldFilledAtRoot ==
    /\ Len(history) = 1
    /\ history[1].kind = "aabb"
    /\ CoversWorld(history[1].ed)
    /\ last_trace # <<>>
    /\ last_trace[1].level = 0
    /\ last_trace[1].type = "kFill"
    /\ \A p \in Voxels : Occ(p) /\ Col(p) = history[1].ed.color

\* Is voxel p within the sphere of the editor: squared distance from the center at
\* most r2?
InSphere(p, ed) ==
    (p[1] - ed.center[1]) * (p[1] - ed.center[1])
        + (p[2] - ed.center[2]) * (p[2] - ed.center[2])
        + (p[3] - ed.center[3]) * (p[3] - ed.center[3]) <= ed.r2

\* The step is an edit of this kind that succeeded.
EditStep(kind) ==
    /\ Len(history') = Len(history) + 1
    /\ history'[Len(history')].kind = kind
    /\ history'[Len(history')].ok

\* C17: a sphere paint with color B leaves every voxel occupied or unoccupied as it
\* was; an occupied voxel within the sphere reads B after it, an occupied voxel
\* outside reads the color it read before.
C17_PaintReadback ==
    [][EditStep("sphere_paint") =>
        \A p \in Voxels :
            /\ Occ(p)' <=> Occ(p)
            /\ (Occ(p) /\ InSphere(p, history'[Len(history')].ed)) =>
                    Col(p)' = history'[Len(history')].ed.color
            /\ (Occ(p) /\ ~InSphere(p, history'[Len(history')].ed)) => Col(p)' = Col(p)]_vars

\* The latest edit is a paint over a world that has an occupied voxel within the
\* sphere, which reads the paint color, an occupied voxel outside, which reads
\* another color, and an unoccupied voxel within the sphere; a subtree that lies
\* within the sphere was painted as a whole.
C17_PaintedPartOfWorld ==
    /\ history # <<>>
    /\ LastOp.kind = "sphere_paint"
    /\ LastOp.ok
    /\ \E p \in Voxels : Occ(p) /\ InSphere(p, LastOp.ed) /\ Col(p) = LastOp.ed.color
    /\ \E p \in Voxels : Occ(p) /\ ~InSphere(p, LastOp.ed) /\ Col(p) \notin {NoColor, LastOp.ed.color}
    /\ \E p \in Voxels : ~Occ(p) /\ InSphere(p, LastOp.ed)
    /\ \E i \in 1 .. Len(last_trace) :
        /\ last_trace[i].type = "kNotAffected"
        /\ last_trace[i].before # PtrNull
        /\ last_trace[i].final_color = LastOp.ed.color

\* C18: after a sphere dig a voxel is occupied if and only if it was occupied and
\* lies outside the sphere, and every voxel still occupied reads the color it read
\* before.
C18_DigReadback ==
    [][EditStep("sphere_dig") =>
        \A p \in Voxels :
            /\ Occ(p)' <=> (Occ(p) /\ ~InSphere(p, history'[Len(history')].ed))
            /\ Occ(p)' => Col(p)' = Col(p)]_vars

\* The latest edit is a dig that emptied an occupied voxel and left a colored voxel
\* occupied outside the sphere.
C18_DugPartOfWorld ==
    /\ history # <<>>
    /\ LastOp.kind = "sphere_dig"
    /\ LastOp.ok
    /\ LastOp.before # LastOp.after
    /\ \E p \in Voxels : ~Occ(p) /\ InSphere(p, LastOp.ed)
    /\ \E p \in Voxels : Occ(p) /\ ~InSphere(p, LastOp.ed) /\ Col(p) # NoColor

\* ThreadedGC is running on the main thread; an edit is running on the worker; a
\* flush() is running on the main thread or on the worker.
GCRunning == main_pc = "gc"
EditRunning == worker_pc = "edit"
MainFlushing == main_pc = "gc_flush"
WorkerFlushing == worker_pc = "flush"

\* C11: while a GC runs no edit is outstanding, that is, submitted and its result
\* not installed yet, and none is running on the worker.
C11_NoGCWhileEditOutstanding ==
    GCRunning => (edit_future = NoTask /\ ~EditRunning)

\* C12: a flush() never runs while the edit writes to the pools, while the GC frees
\* and rewrites their pages, or while the other thread runs flush().
C12_FlushAloneOnStore ==
    /\ ~(MainFlushing /\ (EditRunning \/ WorkerFlushing))
    /\ ~(WorkerFlushing /\ GCRunning)

\* C13: whenever a root is installed, it is the result of an edit or a GC that was
\* computed from the root installed until then.
C13_RootsSequential ==
    [][node_root' # node_root => results'[node_root'].base = node_root]_vars

\* Edits submitted and not finished: tasks waiting in edit_pool plus the one running.
OutstandingEdits == Len(edit_queue) + (IF worker_pc # "idle" THEN 1 ELSE 0)

\* C10: at most one edit is outstanding at any time, and it is the one edit_future
\* holds; a push_edit call enqueues only when edit_future is not valid; and
\* edit_future goes from valid to not valid only in pop_edit_result, when the result
\* is ready, and that step installs the result's roots.
C10_OneEditOutstanding ==
    /\ [](/\ OutstandingEdits <= 1
          /\ OutstandingEdits = 1 => edit_future # NoTask
          /\ \A i \in 1 .. Len(edit_queue) : edit_queue[i].task = edit_future
          /\ worker_pc # "idle" => worker_task.task = edit_future)
    /\ [][/\ Len(edit_queue') > Len(edit_queue) => edit_future = NoTask
          /\ (edit_future # NoTask /\ edit_future' = NoTask) =>
                /\ main_pc = "pop"
                /\ promise[edit_future] # NoResult
                /\ node_root' = promise[edit_future]
                /\ results[promise[edit_future]].kind = "vbr" => color_root' = promise[edit_future]]_vars

\* A push_edit call has returned without enqueuing while the one outstanding edit is
\* in ThreadedEdit on the worker and edit_future holds it.
C10_PushReturnedWhileEditRuns ==
    /\ last_push = "returned"
    /\ worker_pc = "edit"
    /\ edit_future = worker_task.task
    /\ OutstandingEdits = 1

\* C40: every edit that edit_future holds is eventually installed by pop_edit_result,
\* which leaves edit_future invalid; a result is installed by that step alone, each
\* future is of a new task, and a push_edit call comes back without enqueuing only
\* while edit_future is valid.
C40_SubmittedEditInstalled ==
    /\ \A t \in EditTasks :
        (edit_future = t) ~>
            (edit_future = NoTask /\ promise[t] # NoResult /\ node_root = promise[t])
    /\ [][/\ \A t \in EditTasks :
              (promise[t] # NoResult /\ node_root' = promise[t] /\ node_root # promise[t]) =>
                  (main_pc = "pop" /\ edit_future = t /\ edit_future' = NoTask)
          /\ (edit_future' # edit_future /\ edit_future' # NoTask) =>
                  (edit_future = NoTask /\ edit_future' = pushed + 1 /\ pushed' = pushed + 1)
          /\ (last_push' = "returned" /\ last_push # "returned") => edit_future # NoTask]_vars

\* Two edits were submitted one after the other; both have been installed and
\* edit_future is invalid again.
C40_SecondEditInstalled ==
    /\ pushed = 2
    /\ edit_future = NoTask
    /\ promise[1] # NoResult
    /\ promise[2] # NoResult
    /\ node_root = promise[2]
    /\ results[promise[2]].base = promise[1]

\* The latest operation is a color-fused edit that succeeded.
LastEditFused == history # <<>> /\ LastOp.kind # "gc" /\ LastOp.ok /\ IsVBR(LastOp.ed)

\* C32: in a color-fused edit every subtree the editor decided kFill for has the
\* editor's color c as its final_color and SolidColor(c) as its color output, and
\* every subtree whose geometry output is Null has the color output Null.
C32_FillSolidNullNull ==
    LastEditFused =>
        \A i \in 1 .. Len(last_trace) :
            /\ last_trace[i].type = "kFill" =>
                    /\ last_trace[i].final_color = LastOp.ed.color
                    /\ last_trace[i].color = SolidColor(LastOp.ed.color)
            /\ last_trace[i].after = PtrNull => last_trace[i].color = ColorNull

\* The latest edit filled a subtree that had another color before, and left a Null
\* subtree for which the editor had set its color.
C32_FilledAndLeftNull ==
    /\ LastEditFused
    /\ \E i \in 1 .. Len(last_trace) :
        /\ last_trace[i].type = "kFill"
        /\ last_trace[i].before # PtrNull
        /\ last_trace[i].color = SolidColor(LastOp.ed.color)
    /\ \E i \in 1 .. Len(last_trace) :
        /\ last_trace[i].after = PtrNull
        /\ last_trace[i].final_color = LastOp.ed.color
        /\ last_trace[i].color = ColorNull

\* The cube of a decision of the latest edit.
StepCoord(step) == [level |-> step.level, pos |-> step.pos]

\* C34: a paint edit leaves every voxel occupied or unoccupied as it was, and each of
\* its decisions over a Null subtree is kNotAffected.
C34_PaintKeepsGeometry ==
    [][EditStep("sphere_paint") =>
        /\ \A p \in Voxels : Occ(p)' <=> Occ(p)
        /\ \A i \in 1 .. Len(last_trace') :
            last_trace'[i].before = PtrNull => last_trace'[i].type = "kNotAffected"]_vars

\* The latest edit is a paint of a world with occupied voxels; the sphere reaches into
\* a Null subtree, for which the decision was kNotAffected all the same.
C34_PaintedOverNull ==
    /\ history # <<>>
    /\ LastOp.kind = "sphere_paint"
    /\ LastOp.ok
    /\ \E p \in Voxels : Occ(p) /\ Col(p) = LastOp.ed.color
    /\ \E i \in 1 .. Len(last_trace) :
        /\ last_trace[i].before = PtrNull
        /\ last_trace[i].type = "kNotAffected"
        /\ Sphere_EditNode(LastOp.ed, StepCoord(last_trace[i])) = "kProceed"

\* Is voxel p between the corners of the box, both corners included?
InClosedBox(p, ed) == \A a \in Axes : ed.aabb_min[a] <= p[a] /\ p[a] <= ed.aabb_max[a]

VoxelInRange(ed, p) ==
    IF ed.kind = "aabb" THEN AABB_VoxelInRange(ed, [level |-> VoxelLevel, pos |-> p])
    ELSE Sphere_VoxelInRange(ed, [level |-> VoxelLevel, pos |-> p])

GeometryDecision(ed, coord) ==
    IF ed.kind = "aabb" THEN AABB_EditNode(ed, coord) ELSE Sphere_EditNode(ed, coord)

\* The voxels of a cube.
CubeVoxels(coord) ==
    LET lb == GetLowerBoundAtLevel(coord, VoxelLevel)
        ub == GetUpperBoundAtLevel(coord, VoxelLevel)
    IN  { <<x, y, z>> : x \in lb[1] .. (ub[1] - 1), y \in lb[2] .. (ub[2] - 1),
                        z \in lb[3] .. (ub[3] - 1) }

\* A step is an edit that succeeded.
AnyEditStep ==
    /\ Len(history') = Len(history) + 1
    /\ history'[Len(history')].kind # "gc"
    /\ history'[Len(history')].ok

\* C37: for every cube an edit asked its editor about, EditNode returned kFill (or
\* kClear) only if VoxelInRange holds for every voxel of the cube and kNotAffected
\* only if it holds for none; and the edit leaves every voxel of the world as
\* EditVoxel, applied to that voxel alone, would.
C37_ShortcutsAgreeWithVoxels ==
    [][AnyEditStep =>
        \A ed \in {history'[Len(history')].ed} :
            /\ \A i \in 1 .. Len(last_trace') :
                \A c \in {StepCoord(last_trace'[i])} : \A d \in {GeometryDecision(ed, c)} :
                    /\ d \in {"kFill", "kClear"} => \A p \in CubeVoxels(c) : VoxelInRange(ed, p)
                    /\ d = "kNotAffected" => \A p \in CubeVoxels(c) : ~VoxelInRange(ed, p)
            /\ \A p \in Voxels : \A voxel \in {Occ(p)} :
                    Occ(p)' <=> EditVoxel(ed, [level |-> VoxelLevel, pos |-> p], voxel)]_vars

\* The latest edit changed a world that was not empty; its editor took both shortcuts
\* and went down into a cube that its region cuts through.
C37_BothShortcutsTaken ==
    /\ history # <<>>
    /\ LastOp.kind # "gc"
    /\ LastOp.ok
    /\ LastOp.before # LastOp.after
    /\ LastOp.before # PtrNull
    /\ \E i \in 1 .. Len(last_trace) :
        GeometryDecision(LastOp.ed, StepCoord(last_trace[i])) \in {"kFill", "kClear"}
    /\ \E i \in 1 .. Len(last_trace) :
        GeometryDecision(LastOp.ed, StepCoord(last_trace[i])) = "kNotAffected"
    /\ \E i \in 1 .. Len(last_trace) :
        GeometryDecision(LastOp.ed, StepCoord(last_trace[i])) = "kProceed"

\* The flush() at the end of the task lambda of push_edit, and the flush() that ends
\* the initial block.
WorkerFlushStep == worker_pc = "flush" /\ worker_pc' = "idle"
InitialFlushStep == main_pc = "init" /\ main_pc' = "pop"

\* C33: when a flush() emits the pages an edit has written, the roots that edit
\* returned are the installed ones: set_root has run on its result.
C33_RootsInstalledBeforeFlush ==
    [][/\ WorkerFlushStep => node_root = worker_task.result
       /\ InitialFlushStep => node_root = Len(results)]_vars

\* The SetLeaf call a step makes, as logged.
SetLeafStep == Len(leaf_log') > Len(leaf_log)
NewLeafEntry == leaf_log'[Len(leaf_log')]

\* The words the vector has left.
RemainingLeafWords == (LeafTotalPages - m_used_pages) * LeafPageSize

\* The size with its size word of a chunk, and that size made even.
SlotWords(chunk) == Len(chunk) + 1
EvenSlotWords(chunk) == SlotWords(chunk) + (SlotWords(chunk) % 2)

\* C21: a SetLeaf call that needs an append (keep_history, or a pointer that is no
\* leaf, or a slot whose size word is below the chunk's size) which m_leaves cannot
\* satisfy returns the pointer it was given, and no word of m_leaves and no used
\* page changes.
C21_FailedAppendKeepsPointer ==
    [][SetLeafStep =>
        LET e == NewLeafEntry
            reuse == ~keep_history[1] /\ e.given[1] = "Leaf"
            existing == IF reuse THEN m_leaves[e.given[2]] ELSE 0
            asked == IF reuse THEN Max(2 * existing, EvenSlotWords(e.chunk)) ELSE EvenSlotWords(e.chunk)
        IN  ((~reuse \/ SlotWords(e.chunk) > existing) /\ asked > RemainingLeafWords) =>
                /\ e.ptr = e.given
                /\ m_leaves' = m_leaves
                /\ m_used_pages' = m_used_pages]_vars

\* A SetLeaf call on a leaf pointer failed with pages of the vector in use and a page
\* still free: the caller holds the leaf it gave, and a later call appended.
C21_AppendFailedThenSucceeded ==
    \E i \in 1 .. Len(leaf_log) :
        /\ leaf_log[i].path = "failed"
        /\ leaf_log[i].given[1] = "Leaf"
        /\ leaf_log[i].ptr = leaf_log[i].given
        /\ \E j \in (i + 1) .. Len(leaf_log) : leaf_log[j].path = "append"

\* The words m_leaves had left when an Append call returned.
RemainingAt(e) == (LeafTotalPages - e.before) * LeafPageSize

\* The indexes a successful Append call returned.
AppendRange(e) == e.idx .. (e.idx + e.count - 1)

\* C22: an Append call returns an index only when the remaining capacity holds the
\* words asked for, a call that returns None leaves the used pages as they were, and
\* the ranges of two successful calls, also of two tasks running together, share no
\* index.
C22_AppendWithinCapacity ==
    \A i \in 1 .. Len(append_log) :
        LET e == append_log[i]
        IN  /\ e.idx # NoIndex => e.count <= RemainingAt(e)
            /\ e.idx = NoIndex => e.after = e.before
            /\ \A j \in 1 .. Len(append_log) :
                (j # i /\ e.idx # NoIndex /\ append_log[j].idx # NoIndex) =>
                    AppendRange(e) \cap AppendRange(append_log[j]) = {}

\* The capacity of the slot a leaf pointer names: the words asked of Append for it.
SlotCapacity(ptr) ==
    LET i == CHOOSE i \in 1 .. Len(leaf_log) : leaf_log[i].path = "append" /\ leaf_log[i].ptr = ptr
    IN  leaf_log[i].count

\* C23: without keep_history a SetLeaf on a leaf pointer whose slot capacity is at
\* least the chunk's size wrote into that slot and returned the pointer it was given;
\* every other SetLeaf appended a fresh slot and returned a pointer to it.
C23_ReuseWhenFits ==
    \A i \in 1 .. Len(leaf_log) :
        LET e == leaf_log[i]
        IN  IF /\ ~keep_history[1]
               /\ e.given[1] = "Leaf"
               /\ SlotCapacity(e.given) >= SlotWords(e.chunk)
            THEN e.path = "reuse" /\ e.ptr = e.given
            ELSE e.path = "append" /\ e.ptr # e.given /\ e.ptr[1] = "Leaf"

\* C39: every SetLeaf call that wrote a chunk wrote it inside the slot its pointer
\* names: the capacity word and the words of the chunk are no more than the words
\* Append was asked for when the slot was made.
C39_WritesWithinSlot ==
    \A i \in 1 .. Len(leaf_log) :
        leaf_log[i].path # "failed" =>
            SlotWords(leaf_log[i].chunk) <= SlotCapacity(leaf_log[i].ptr)

\* The chunk a successful SetLeaf stored is read back through the pointer returned.
ReadsBack(words, e) ==
    \A k \in 1 .. Len(e.chunk) : words[e.ptr[2] + k] = e.chunk[k]

FlushStep ==
    /\ m_pages' = m_pages
    /\ written' = written
    /\ m_page_frees' \subseteq m_page_frees
    /\ \A p \in PageIds : m_page_write_ranges'[p] \in {NoRange, m_page_write_ranges[p]}

\* The ops of a kind a Flush emitted for a page.
OpsFor(ops, kind, p) == { i \in 1 .. Len(ops) : ops[i].kind = kind /\ ops[i].page_id = p }

\* C26: a Flush emits one Bind for every resident page with a dirty range, carrying
\* the words of that range, one Unbind for every page recorded as freed, and no other
\* op; both tracking sets are empty after it, and a Flush right after it would emit
\* no op.
C26_FlushEmitsOncePerPage ==
    [][FlushStep =>
        /\ \A p \in PageIds :
            /\ Cardinality(OpsFor(last_ops', "Bind", p)) =
                    IF m_page_write_ranges[p] # NoRange /\ m_pages[p] # NoPage THEN 1 ELSE 0
            /\ Cardinality(OpsFor(last_ops', "Unbind", p)) = IF p \in m_page_frees THEN 1 ELSE 0
            /\ \A i \in OpsFor(last_ops', "Bind", p) :
                /\ last_ops'[i].offset = m_page_write_ranges[p][1]
                /\ last_ops'[i].words =
                        [k \in 1 .. (m_page_write_ranges[p][2] - m_page_write_ranges[p][1]) |->
                            m_pages[p][m_page_write_ranges[p][1] + k]]
        /\ m_page_frees' = {}
        /\ \A p \in PageIds : m_page_write_ranges'[p] = NoRange
        /\ FlushOps(m_pages', m_page_write_ranges', m_page_frees') = <<>>]_vars

\* A Flush has emitted a Bind for a written page and an Unbind for a freed one, and
\* nothing is left to flush.
C26_FlushedBindAndUnbind ==
    /\ \E p, q \in PageIds :
        /\ p # q
        /\ OpsFor(last_ops, "Bind", p) # {}
        /\ OpsFor(last_ops, "Unbind", q) # {}
        /\ m_pages[p] # NoPage
        /\ m_pages[q] = NoPage
    /\ m_page_frees = {}
    /\ \A p \in PageIds : m_page_write_ranges[p] = NoRange

\* The step is a press of the GC button.
GCStep ==
    /\ Len(history') = Len(history) + 1
    /\ history'[Len(history')].kind = "gc"

\* C27: the Flush that follows a GC emits an Unbind for every page that was resident
\* before the GC and is not a page of the compacted pool, which leaves the backend
\* without it, and emits no Unbind for a page the compacted pool uses, which the
\* backend holds bound; no free is left recorded.
C27_GCFreesUnusedPages ==
    [][GCStep =>
        /\ \A p \in PageIds :
            /\ (m_pages[p] # NoPage /\ m_pages'[p] = NoPage) =>
                    /\ Cardinality(OpsFor(last_ops', "Unbind", p)) = 1
                    /\ ~backend'[p].bound
            /\ m_pages'[p] # NoPage =>
                    /\ OpsFor(last_ops', "Unbind", p) = {}
                    /\ backend'[p].bound
        /\ m_page_frees' = {}]_vars

\* A GC has just dropped a page the world no longer needs and kept another: the
\* Flush after it emitted an Unbind for the first and a Bind for the second.
C27_GCUnboundAPage ==
    /\ history # <<>>
    /\ history[Len(history)].kind = "gc"
    /\ \E p, q \in PageIds :
        /\ m_pages[p] = NoPage
        /\ OpsFor(last_ops, "Unbind", p) # {}
        /\ m_pages[q] # NoPage
        /\ OpsFor(last_ops, "Bind", q) # {}

\* What the edit the tasks belong to returns when its recursion runs in the order of
\* the loop of edit_inner_node, from the pool and the roots it started from.
InLoopOrder(f) == ThreadedEdit(f.base[1], fresh_fill, f.ed[1], f.root, f.color)

C30_VBRRoundTrip ==
    vbr.read # <<>> => vbr.read[1].color = vbr.colors[vbr.read[1].i + 1]

\* The block and the weight offset of voxel index i found by a scan of the block headers
\* from the start of the chunk.
SequentialLocate(w, i) ==
    LET at == ScanBlocks(w.block_headers, 1, i, 0)
    IN  [block |-> at.block, bit |-> at.bits + (at.offset * w.block_headers[at.block].wb)]

\* C31: a read at voxel index i that starts at the macro-block covering i arrives at the
\* same block and the same weight bits as a scan from the start of the chunk.
C31_MacroAccessMatchesScan ==
    vbr.read # <<>> =>
        /\ vbr.read[1].block = SequentialLocate(vbr, vbr.read[1].i).block
        /\ vbr.read[1].bit = SequentialLocate(vbr, vbr.read[1].i).bit

\* No write_page, zero_page or free_page of SpecStore names a page outside
\* StorePages: these pages are never written, whatever calls the store has served.
NeverWritten(p) == p \notin StorePages

\* C19: in every reachable state, read_page of a page that was never written returns
\* all-zero words.

C19_ReadNeverWrittenIsZeros ==
    \A p \in PageIds : NeverWritten(p) => ReadPage(m_pages, p) = Zeros(WordsPerPage)

\* The page was freed and written again since the last Flush.
FreedThenWritten(p) == p \in m_page_frees /\ written[p] # {}

\* C38: a page freed and then written again before the next Flush is resident in the
\* store, and that Flush leaves it bound in the backend with the words written.
C38_RewrittenPageStaysBound ==
    [][\A p \in PageIds :
        FreedThenWritten(p) =>
            /\ m_pages[p] # NoPage
            /\ FlushStep =>
                /\ backend'[p].bound
                /\ \A o \in written[p] : backend'[p].words[o + 1] = m_pages[p][o + 1]]_vars

\* No write and no free is pending: the state right after a Flush.
StoreClean ==
    /\ \A p \in PageIds : m_page_write_ranges[p] = NoRange
    /\ m_page_frees = {}

\* C9: after a Flush, for every resident page, the backend the flushed ops were
\* applied to holds the page bound, with the words the PagedStore holds (compared on
\* the words that were written since the page was materialised: the others are
\* indeterminate in the store).
C9_FlushDiffConsistent ==
    StoreClean =>
        \A p \in PageIds :
            m_pages[p] # NoPage =>
                /\ backend[p].bound
                /\ \A o \in written[p] : backend[p].words[o + 1] = m_pages[p][o + 1]

====
